---- MODULE Spec2Model ----
(***************************************************************************)
(* Model of the recalculation pipeline of costing-mvp:                     *)
(*   internal/modules/costing/engine.go      WorkerPool.RecalculateAll     *)
(*   internal/infrastructure/persistence     job registry, summary store,  *)
(*                                           variant catalog queries       *)
(*   internal/modules/costing/engine.go      CalculateVariantFast          *)
(*   pkg/formula                             Parser.Evaluate               *)
(*   cmd drivers (API handler, worker service) that start a run            *)
(*                                                                         *)
(* Spec          one RecalculateAll run on one job, with its goroutines    *)
(*               (dispatcher, workers, collector) interleaved              *)
(* FairSpec      Spec with weak fairness on every goroutine step           *)
(* RegistrySpec  the job registry under any sequence of its operations     *)
(* RerunSpec     two RecalculateAll runs in a row on the same catalog      *)
(* CalcSpec      CalculateVariantFast called on any step list and bag      *)
(* PressureSpec  Spec on catalogs longer than the queues, batch_size 1     *)
(* FairPressureSpec  PressureSpec with the fairness of FairSpec            *)
(* PanicSpec     Spec with a task that may panic                           *)
(* TableSpec     concurrent callers of the registry on a table of jobs     *)
(* EvalSpec      Parser.Evaluate called on any formula and bag             *)
(* DispatchSpec  the API's asynchronous start and the worker service's     *)
(*               poll, each invoking RecalculateAll on the jobs table      *)
(***************************************************************************)
EXTENDS Integers, Sequences, FiniteSets, TLC

(* ---------------------------- bounds ---------------------------------- *)
MaxVariants == 2      \* rows of yarn_variants
MaxBatch == 2         \* cfg.Worker.BatchSize ranges over 1..MaxBatch
MaxDelta == 2         \* RegistrySpec: largest counter argument
MaxCounter == 3       \* RegistrySpec: cap on a stored counter
workerCount == 2      \* cfg.Worker.Count
MaxClock == 2         \* CalcSpec: time of the last call
MaxCallers == 2       \* TableSpec: concurrent callers of the registry
MaxRuns == 3          \* DispatchSpec: RecalculateAll invocations in all

Routings == {"r1", "r2"}
Workers == 1..workerCount

VARIABLES
    catalog,            \* yarn_variants ordered by id: [is_active, routing_template_id]
    batchSize,          \* wp.batchSize
    driver,             \* "api" (context.Background) or "worker" (cancellable ctx)
    ctxDone,            \* ctx.Done() is closed
    job,                \* the batch_jobs row of jobID
    summaryStore,       \* rows of variant_cost_summaries
    clock,              \* time.Now(), counted in runs
    pc,                 \* position of RecalculateAll / its caller
    runErr,             \* error returned by RecalculateAll ("" = nil)
    totalCount,
    routingStepsCache,  \* routing id -> cached steps (formula expressions)
    workChan, workClosed,
    resultChan, resultClosed,
    readerPc, offset, page, pageIdx,
    workerPc, workerItem,
    collectorPc, buffer,
    processedCount, failedCount,
    \* history of the run, read only by the properties
    enqueued,           \* variant ids the dispatcher put on workChan
    failedVariants,     \* variant ids for which failedCount was incremented
    attempted,          \* variant ids passed to an UpsertBatch call
    flushLog,           \* outcome of every UpsertBatch call, in order
    readerErr,          \* ListWithRouting returned an error
    \* RerunSpec
    runsLeft,           \* further RecalculateAll runs the caller will start
    storeLog,           \* the summary store at the end of every run so far
    \* CalcSpec
    calcBag,            \* the parameter bag of the calls
    calcLast, calcPrev, \* the last two calls of CalculateVariantFast
    \* RegistrySpec
    progressRead,       \* the last call of BatchJob.Progress: receiver fields, value
    \* TableSpec
    jobs,               \* batch_jobs: job id -> row
    callers,            \* the registry call of every concurrent caller
    \* EvalSpec
    evalLast,           \* the last call of Parser.Evaluate
    \* DispatchSpec
    runs,               \* every RecalculateAll invocation: job id, caller, position
    polled              \* worker service: pending jobs of its last ListRecent, unprocessed

vars == <<catalog, batchSize, driver, ctxDone, job, summaryStore, pc, runErr,
          totalCount, routingStepsCache, workChan, workClosed, resultChan,
          resultClosed, readerPc, offset, page, pageIdx, workerPc, workerItem,
          collectorPc, buffer, processedCount, failedCount, enqueued,
          failedVariants, attempted, flushLog, readerErr, clock, runsLeft,
          storeLog, calcBag, calcLast, calcPrev, progressRead, jobs, callers,
          evalLast, runs, polled>>

calcVars == <<calcBag, calcLast, calcPrev>>
dispatchVars == <<runs, polled>>
auxVars == <<progressRead, jobs, callers, evalLast, dispatchVars>>
(* what no step of a run changes: its inputs, the clock, and the variables *)
(* of the other specifications                                             *)
inputVars == <<catalog, batchSize, driver, clock, runsLeft, storeLog, calcVars,
               auxVars>>
chanVars == <<workChan, workClosed, resultChan, resultClosed>>
readerVars == <<readerPc, offset, page, pageIdx>>
workerVars == <<workerPc, workerItem>>
collectorVars == <<collectorPc, buffer>>
histVars == <<enqueued, failedVariants, attempted, flushLog, readerErr>>

(* ----------------------------- helpers -------------------------------- *)
Min(a, b) == IF a < b THEN a ELSE b
Range(s) == {s[i] : i \in 1..Len(s)}

(* F applied to the value of e (of a and b), which is computed once *)
Bind(e, F(_)) == CHOOSE r \in {F(x) : x \in {e}} : TRUE
Bind2(a, b, F(_, _)) == CHOOSE r \in {F(x, y) : x \in {a}, y \in {b}} : TRUE


(* ------------------------ float64 values ------------------------------ *)
(* A float64 is a fixed-point number (n stands for n / Scale), +Inf, -Inf  *)
(* or NaN; a product or quotient is rounded toward zero to the grid.       *)
Scale == 10

Fin(n) == [k |-> "fin", n |-> n]
PosInf == [k |-> "inf", n |-> 1]
NegInf == [k |-> "inf", n |-> -1]
NaN == [k |-> "nan", n |-> 0]

Sign(n) == IF n > 0 THEN 1 ELSE IF n < 0 THEN -1 ELSE 0
Abs(n) == IF n < 0 THEN -n ELSE n
Quot(a, b) == Sign(a) * Sign(b) * (Abs(a) \div Abs(b))

FNeg(x) == [x EXCEPT !.n = -@]

Add64(x, y) ==
    IF x.k = "nan" \/ y.k = "nan" THEN NaN
    ELSE IF x.k = "inf" /\ y.k = "inf" THEN (IF x.n = y.n THEN x ELSE NaN)
    ELSE IF x.k = "inf" THEN x
    ELSE IF y.k = "inf" THEN y
    ELSE Fin(x.n + y.n)

Mul64(x, y) ==
    IF x.k = "nan" \/ y.k = "nan" THEN NaN
    ELSE IF x.k = "inf" \/ y.k = "inf"
         THEN (IF x.n = 0 \/ y.n = 0 THEN NaN
               ELSE [k |-> "inf", n |-> Sign(x.n) * Sign(y.n)])
    ELSE Fin(Quot(x.n * y.n, Scale))

Div64(x, y) ==
    IF x.k = "nan" \/ y.k = "nan" THEN NaN
    ELSE IF x.k = "inf"
         THEN (IF y.k = "inf" THEN NaN
               ELSE [k |-> "inf", n |-> x.n * (IF y.n < 0 THEN -1 ELSE 1)])
    ELSE IF y.k = "inf" THEN Fin(0)
    ELSE IF y.n = 0
         THEN (IF x.n = 0 THEN NaN ELSE [k |-> "inf", n |-> Sign(x.n)])
    ELSE Fin(Quot(x.n * Scale, y.n))

(* the Go operators +, -, *, / on float64 operands *)
FAdd(a, b) == Bind2(a, b, Add64)
FSub(a, b) == Bind2(a, FNeg(b), Add64)
FMul(a, b) == Bind2(a, b, Mul64)
FDiv(a, b) == Bind2(a, b, Div64)

(* the == of two float64 values: NaN equals nothing, itself included *)
FEq(x, y) == x.k # "nan" /\ y.k # "nan" /\ x = y

(* ------------------------- parameter bag ------------------------------ *)
(* map[string]interface{}: a value carries its Go dynamic type *)
Val(type, n) == [type |-> type, v |-> n]
NumericTypes == {"float64", "float32", "int", "int64"}

(* --------------------------- pkg/formula ------------------------------ *)
(* A formula expression is its sequence of tokens.                        *)
Id(s) == [t |-> "id", s |-> s, v |-> 0]
Num(n) == [t |-> "num", s |-> "", v |-> n]
Op(s) == [t |-> "op", s |-> s, v |-> 0]

ParseError == [ok |-> FALSE, val |-> Fin(0), pos |-> 0]
Parsed(val, pos) == [ok |-> TRUE, val |-> val, pos |-> pos]
IsOp(toks, i, ops) == i <= Len(toks) /\ toks[i].t = "op" /\ toks[i].s \in ops

(* the value of a comparison *)
Bool(b) == [k |-> "bool", n |-> IF b THEN 1 ELSE 0]
IsNum(val) == val.k # "bool"

(* x < y on float64 operands: false when either is NaN *)
FLess(x, y) ==
    IF x.k = "nan" \/ y.k = "nan" THEN FALSE
    ELSE IF x.k = "inf" THEN x.n < 0 /\ ~(y.k = "inf" /\ y.n < 0)
    ELSE IF y.k = "inf" THEN y.n > 0
    ELSE x.n < y.n

CompareOps == {"<", "<=", ">", ">=", "==", "!="}

(* variant of Compare in which > is read as < *)
CompareSwapped(op, x, y) ==
    Bool(CASE op \in {"<", ">"} -> FLess(x, y)
           [] op = "<=" -> FLess(x, y) \/ FEq(x, y)
           [] op = ">=" -> FLess(y, x) \/ FEq(x, y)
           [] op = "==" -> FEq(x, y)
           [] op = "!=" -> ~FEq(x, y))

Compare(op, x, y) ==
    Bool(CASE op = "<" -> FLess(x, y)
           [] op = ">" -> FLess(y, x)
           [] op = "<=" -> FLess(x, y) \/ FEq(x, y)
           [] op = ">=" -> FLess(y, x) \/ FEq(x, y)
           [] op = "==" -> FEq(x, y)
           [] op = "!=" -> ~FEq(x, y))

(* expr.Compile with expr.Env(params) and expr.AsFloat64(), then expr.Run: *)
(* precedence climbing, lowest first: ?: (right-associative), comparison,  *)
(* + -, * /, then parentheses, literals and identifiers. An identifier     *)
(* must be a key of params with a numeric value; arithmetic and comparison *)
(* take numbers, the condition of ?: is a comparison.                      *)
RECURSIVE ParseTernary(_, _, _), ParseCompare(_, _, _), ParseExpr(_, _, _),
          ExprRest(_, _, _, _), ParseTerm(_, _, _), TermRest(_, _, _, _),
          ParseFactor(_, _, _)
ParseFactor(params, toks, i) ==
    IF i > Len(toks) THEN ParseError
    ELSE IF toks[i].t = "num" THEN Parsed(Fin(toks[i].v), i + 1)
    ELSE IF toks[i].t = "id"
         THEN (IF toks[i].s \in DOMAIN params
                  /\ params[toks[i].s].type \in NumericTypes
               THEN Parsed(Fin(params[toks[i].s].v), i + 1)
               ELSE ParseError)
    ELSE IF toks[i].s = "("
         THEN Bind(ParseTernary(params, toks, i + 1),
                   LAMBDA e : IF e.ok /\ IsOp(toks, e.pos, {")"})
                              THEN Parsed(e.val, e.pos + 1)
                              ELSE ParseError)
    ELSE ParseError

TermRest(params, toks, acc, i) ==
    IF IsOp(toks, i, {"*", "/"})
    THEN Bind(ParseFactor(params, toks, i + 1),
              LAMBDA f : IF ~f.ok \/ ~IsNum(f.val) \/ ~IsNum(acc) THEN ParseError
                         ELSE TermRest(params, toks,
                                       IF toks[i].s = "*" THEN FMul(acc, f.val)
                                       ELSE FDiv(acc, f.val),
                                       f.pos))
    ELSE Parsed(acc, i)

ParseTerm(params, toks, i) ==
    Bind(ParseFactor(params, toks, i),
         LAMBDA f : IF f.ok THEN TermRest(params, toks, f.val, f.pos)
                    ELSE ParseError)

ExprRest(params, toks, acc, i) ==
    IF IsOp(toks, i, {"+", "-"})
    THEN Bind(ParseTerm(params, toks, i + 1),
              LAMBDA t : IF ~t.ok \/ ~IsNum(t.val) \/ ~IsNum(acc) THEN ParseError
                         ELSE ExprRest(params, toks,
                                       IF toks[i].s = "+" THEN FAdd(acc, t.val)
                                       ELSE FSub(acc, t.val),
                                       t.pos))
    ELSE Parsed(acc, i)

ParseExpr(params, toks, i) ==
    Bind(ParseTerm(params, toks, i),
         LAMBDA t : IF t.ok THEN ExprRest(params, toks, t.val, t.pos)
                    ELSE ParseError)

ParseCompare(params, toks, i) ==
    Bind(ParseExpr(params, toks, i),
         LAMBDA l :
           IF ~l.ok THEN ParseError
           ELSE IF IsOp(toks, l.pos, CompareOps)
                THEN Bind(ParseExpr(params, toks, l.pos + 1),
                          LAMBDA r :
                            IF ~r.ok \/ ~IsNum(l.val) \/ ~IsNum(r.val)
                            THEN ParseError
                            ELSE Parsed(Compare(toks[l.pos].s, l.val, r.val),
                                        r.pos))
                ELSE l)

ParseTernary(params, toks, i) ==
    Bind(ParseCompare(params, toks, i),
         LAMBDA c :
           IF ~c.ok THEN ParseError
           ELSE IF IsOp(toks, c.pos, {"?"})
                THEN Bind(ParseTernary(params, toks, c.pos + 1),
                          LAMBDA a :
                            IF ~a.ok \/ ~IsOp(toks, a.pos, {":"}) THEN ParseError
                            ELSE Bind(ParseTernary(params, toks, a.pos + 1),
                                      LAMBDA b :
                                        IF ~b.ok \/ IsNum(c.val)
                                             \/ IsNum(a.val) # IsNum(b.val)
                                        THEN ParseError
                                        ELSE Parsed(IF c.val.n = 1 THEN a.val
                                                    ELSE b.val, b.pos)))
                ELSE c)

(* variant of Evaluate that accepts a text of which a prefix is a formula *)
EvaluatePrefix(expression, params) ==
    Bind(ParseTernary(params, expression, 1),
         LAMBDA r : IF r.ok /\ IsNum(r.val)
                    THEN [err |-> FALSE, val |-> r.val]
                    ELSE [err |-> TRUE, val |-> Fin(0)])

(* Parser.Evaluate: (result, nil), or (0, err) when Compile or Run fails;  *)
(* with expr.AsFloat64() a formula whose value is not a number does not    *)
(* compile                                                                 *)
Evaluate(expression, params) ==
    Bind(ParseTernary(params, expression, 1),
         LAMBDA r : IF r.ok /\ r.pos = Len(expression) + 1 /\ IsNum(r.val)
                    THEN [err |-> FALSE, val |-> r.val]
                    ELSE [err |-> TRUE, val |-> Fin(0)])

(* ---------------------- CalculationEngine ----------------------------- *)
(* the default overhead factor, 0.1 *)
DefaultOverhead == Fin(1)

(* the type switch of getFloatParam: float64, float32 and int only *)
getFloatParam(params, key, defaultVal) ==
    IF key \in DOMAIN params /\ params[key].type \in {"float64", "float32", "int"}
    THEN Fin(params[key].v)
    ELSE defaultVal

(* variant of StepCost in which a failed evaluation poisons the total *)
StepCostPoisoned(step, inputParams) ==
    Bind(Evaluate(step, inputParams), LAMBDA r : IF r.err THEN NaN ELSE r.val)

(* cost, err := Evaluate(step.FormulaExpression, inputParams);             *)
(* if err != nil { cost = 0 }                                              *)
StepCost(step, inputParams) ==
    Bind(Evaluate(step, inputParams), LAMBDA r : IF r.err THEN Fin(0) ELSE r.val)

(* the loop over steps: totalProcessCost += cost, in step order *)
RECURSIVE TotalProcessCost(_, _, _)
TotalProcessCost(steps, inputParams, n) ==
    IF n = 0 THEN Fin(0)
    ELSE FAdd(TotalProcessCost(steps, inputParams, n - 1),
              StepCost(steps[n], inputParams))

(* variant of GrandTotal that leaves the overhead out *)
GrandTotalNoOverhead(materialCost, totalProcessCost, overhead) ==
    FAdd(materialCost, totalProcessCost)

(* GrandTotal: materialCost + totalProcessCost + overhead *)
GrandTotal(materialCost, totalProcessCost, overhead) ==
    FAdd(FAdd(materialCost, totalProcessCost), overhead)

(* json.Marshal of the bag: an object keyed by name (keys are written in   *)
(* sorted order), a number written without its Go type                     *)
MarshalJSON(params) ==
    [key \in DOMAIN params |->
        [str |-> params[key].type \notin NumericTypes, v |-> params[key].v]]

(* hex.EncodeToString(sha256.Sum256(b)): one digest per byte string *)
Sum256Hex(b) == [sha256 |-> b]

(* variant of HashInput that hashes the variant id with the bag *)
HashInputWithID(variantID, steps, inputParams, now) ==
    [key \in DOMAIN inputParams \cup {"id"} |->
        IF key = "id" THEN Val("int", variantID) ELSE inputParams[key]]

(* the value CalculateVariantFast hands to json.Marshal *)
HashInput(variantID, steps, inputParams, now) == inputParams

(* now is the value of time.Now() at the call *)
CalculateVariantFast(variantID, steps, inputParams, now) ==
    Bind(TotalProcessCost(steps, inputParams, Len(steps)),
         LAMBDA totalProcessCost :
           Bind2(getFloatParam(inputParams, "material_cost", Fin(0)),
                 FMul(totalProcessCost,
                      getFloatParam(inputParams, "overhead_percentage",
                                    DefaultOverhead)),
                 LAMBDA materialCost, overhead :
                   [YarnVariantID |-> variantID,
                    TotalMaterialCost |-> materialCost,
                    TotalProcessCost |-> totalProcessCost,
                    TotalOverhead |-> overhead,
                    GrandTotal |-> GrandTotal(materialCost, totalProcessCost,
                                              overhead),
                    LastRecalculatedAt |-> now,
                    VersionHash |->
                        Sum256Hex(MarshalJSON(
                            HashInput(variantID, steps, inputParams, now)))]))

(* --------------------- data the drivers supply ------------------------ *)
(* baseParams of the API handler and the worker service (six of its keys) *)
BaseParams ==
    [material_price |-> Val("float64", 50 * Scale),
     labor_rate |-> Val("float64", 25 * Scale),
     overhead_percentage |-> Val("float64", 1),
     raw_material_kg |-> Val("float64", 100 * Scale),
     labor_hours_1 |-> Val("float64", 8 * Scale),
     material_cost |-> Val("float64", 1000 * Scale)]

(* process_steps rows by sequence_order: r1 has three steps, the second of *)
(* which names a parameter the bag does not hold; r2 has none              *)
ProcessSteps ==
    [r \in Routings |->
        IF r = "r1"
        THEN << <<Id("raw_material_kg"), Op("*"), Id("material_price")>>,
                <<Id("labor_hours_4"), Op("*"), Id("labor_rate")>>,
                <<Id("labor_hours_1"), Op("*"), Id("labor_rate")>> >>
        ELSE <<>>]

(* no call of CalculateVariantFast yet *)
NoCall == [variantID |-> 0]

(* a worker that holds no summary *)
NoSummary == [YarnVariantID |-> 0]

(* no call of BatchJob.Progress, of Parser.Evaluate yet *)
NoRead == [called |-> FALSE]
NoEval == [called |-> FALSE]

(* the variables of RegistrySpec, TableSpec and EvalSpec outside them *)
AuxInit ==
    /\ progressRead = NoRead
    /\ jobs = <<>>
    /\ callers = <<>>
    /\ evalLast = NoEval
    /\ runs = <<>> /\ polled = <<>>

(* ------------------------- job registry ------------------------------- *)
NewJob ==
    [status |-> "PENDING", total_records |-> 0, processed_records |-> 0,
     failed_records |-> 0, error_message |-> "", finished_at |-> FALSE]

UpdateStatus(j, status, processed, failed) ==
    [j EXCEPT !.status = status, !.processed_records = processed,
              !.failed_records = failed]

(* variant of UpdateProgress that stores the values passed *)
UpdateProgressSet(j, processed, failed) ==
    [j EXCEPT !.processed_records = processed, !.failed_records = failed]

UpdateProgress(j, processed, failed) ==
    [j EXCEPT !.processed_records = @ + processed,
              !.failed_records = @ + failed]

Complete(j) == [j EXCEPT !.status = "COMPLETED", !.finished_at = TRUE]

Fail(j, errorMsg) ==
    [j EXCEPT !.status = "FAILED", !.error_message = errorMsg,
              !.finished_at = TRUE]

(* ------------------------ BatchJob.Progress --------------------------- *)
(* float64 quotients and products of integers, kept exact as fractions    *)
(* (den # 0); the rounding of the float64 result is left out              *)
Rat(num, den) == [num |-> num, den |-> den]
RatDiv(x, y) == Rat(x.num * y.den, x.den * y.num)
RatMul(x, y) == Rat(x.num * y.num, x.den * y.den)
RatEq(x, y) == x.num * y.den = y.num * x.den

(* variant of Progress that returns the fraction, not the percentage *)
ProgressFraction(b) ==
    IF b.total_records = 0
    THEN Rat(0, 1)
    ELSE RatDiv(Rat(b.processed_records, 1), Rat(b.total_records, 1))

(* if b.TotalRecords == 0 { return 0 }                                    *)
(* return float64(b.ProcessedRecords) / float64(b.TotalRecords) * 100     *)
Progress(b) ==
    IF b.total_records = 0
    THEN Rat(0, 1)
    ELSE RatMul(RatDiv(Rat(b.processed_records, 1), Rat(b.total_records, 1)),
                Rat(100, 1))

(* pool.Exec under a context: a cancelled context fails the statement *)
Exec(done, before, after) == IF done THEN before ELSE after

(* ------------------------ variant catalog ----------------------------- *)
RECURSIVE ActiveIDs(_)
ActiveIDs(n) ==
    IF n = 0 THEN <<>>
    ELSE IF catalog[n].is_active THEN Append(ActiveIDs(n - 1), n)
         ELSE ActiveIDs(n - 1)

(* variant of ListWithRouting without WHERE is_active = true *)
ListWithRoutingAll(limit, off) ==
    [i \in 1..(Min(off + limit, Len(catalog)) - Min(off, Len(catalog))) |->
        [ID |-> off + i, RoutingID |-> catalog[off + i].routing_template_id]]

(* SELECT id, routing_template_id FROM yarn_variants WHERE is_active = true *)
(* ORDER BY id LIMIT limit OFFSET off                                      *)
ListWithRouting(limit, off) ==
    LET ids == ActiveIDs(Len(catalog))
    IN [i \in 1..(Min(off + limit, Len(ids)) - Min(off, Len(ids))) |->
          [ID |-> ids[off + i],
           RoutingID |-> catalog[ids[off + i]].routing_template_id]]

Count == Len(catalog)

ListUniqueRoutingIDs == {catalog[i].routing_template_id : i \in 1..Len(catalog)}

loadRoutingStepsCache(failedLoads) ==
    [r \in (ListUniqueRoutingIDs \ failedLoads) |-> ProcessSteps[r]]

(* ------------------------------ Init ---------------------------------- *)
Catalogs ==
    UNION {[1..n -> [is_active : BOOLEAN, routing_template_id : Routings]] :
             n \in 0..MaxVariants}

Init ==
    /\ catalog \in Catalogs
    /\ batchSize \in 1..MaxBatch
    /\ driver \in {"api", "worker"}
    /\ ctxDone = FALSE
    /\ job = NewJob
    /\ summaryStore = {}
    /\ pc = "count"
    /\ runErr = ""
    /\ totalCount = 0
    /\ routingStepsCache = <<>>
    /\ workChan = <<>> /\ workClosed = FALSE
    /\ resultChan = <<>> /\ resultClosed = FALSE
    /\ readerPc = "idle" /\ offset = 0 /\ page = <<>> /\ pageIdx = 1
    /\ workerPc = [w \in Workers |-> "idle"]
    /\ workerItem = [w \in Workers |-> NoSummary]
    /\ collectorPc = "idle" /\ buffer = <<>>
    /\ processedCount = 0 /\ failedCount = 0
    /\ enqueued = {} /\ failedVariants = {} /\ attempted = {}
    /\ flushLog = <<>> /\ readerErr = FALSE
    /\ clock = 1 /\ runsLeft = 0 /\ storeLog = <<>>
    /\ calcBag = BaseParams /\ calcLast = NoCall /\ calcPrev = NoCall
    /\ AuxInit

(* ------------------- RecalculateAll: main task ------------------------ *)
(* totalCount, err := wp.variantRepo.Count(ctx) *)
CountVariants ==
    /\ pc = "count"
    /\ \E dbOk \in BOOLEAN :
         IF ctxDone \/ ~dbOk
         THEN /\ runErr' = "failed to count variants"
              /\ pc' = "returned"
              /\ UNCHANGED totalCount
         ELSE /\ totalCount' = Count
              /\ pc' = "cache"
              /\ UNCHANGED runErr
    /\ UNCHANGED <<inputVars, ctxDone, job, summaryStore, routingStepsCache,
                   chanVars, readerVars, workerVars, collectorVars,
                   processedCount, failedCount, histVars>>

(* routingStepsCache, err := wp.loadRoutingStepsCache(ctx) *)
LoadCache ==
    /\ pc = "cache"
    /\ \E dbOk \in BOOLEAN, failedLoads \in SUBSET ListUniqueRoutingIDs :
         IF ctxDone \/ ~dbOk
         THEN /\ runErr' = "failed to load routing cache"
              /\ pc' = "returned"
              /\ UNCHANGED routingStepsCache
         ELSE /\ routingStepsCache' = loadRoutingStepsCache(failedLoads)
              /\ pc' = "mark"
              /\ UNCHANGED runErr
    /\ UNCHANGED <<inputVars, ctxDone, job, summaryStore, totalCount,
                   chanVars, readerVars, workerVars, collectorVars,
                   processedCount, failedCount, histVars>>

(* UpdateStatus(ctx, jobID, RUNNING, 0, 0), then the goroutines start *)
MarkRunning ==
    /\ pc = "mark"
    /\ job' = Exec(ctxDone, job, UpdateStatus(job, "RUNNING", 0, 0))
    /\ readerPc' = "fetch"
    /\ workerPc' = [w \in Workers |-> "recv"]
    /\ collectorPc' = "recv"
    /\ pc' = "waitWorkers"
    /\ UNCHANGED <<inputVars, ctxDone, summaryStore, runErr, totalCount,
                   routingStepsCache, chanVars, offset, page, pageIdx,
                   workerItem, buffer, processedCount, failedCount, histVars>>

(* variant of wg.Wait() that returns after the first wg.Done() *)
WorkersDoneAny == \E w \in Workers : workerPc[w] = "done"

(* wg.Wait(): every worker has run its deferred wg.Done() *)
WorkersDone == \A w \in Workers : workerPc[w] = "done"

(* wg.Wait(); close(resultChan) *)
CloseResults ==
    /\ pc = "waitWorkers"
    /\ WorkersDone
    /\ resultClosed' = TRUE
    /\ pc' = "waitCollector"
    /\ UNCHANGED <<inputVars, ctxDone, job, summaryStore, runErr, totalCount,
                   routingStepsCache, workChan, workClosed, resultChan,
                   readerVars, workerVars, collectorVars, processedCount,
                   failedCount, histVars>>

(* variant of resultWg.Wait() that does not wait *)
CollectorDoneNoWait == collectorPc \in {"recv", "done"}

(* resultWg.Wait(): the collector has run its deferred resultWg.Done() *)
CollectorDone == collectorPc = "done"

(* resultWg.Wait(); ...; wp.jobRepo.Complete(ctx, jobID) *)
CompleteJob ==
    /\ pc = "waitCollector"
    /\ CollectorDone
    /\ \E dbOk \in BOOLEAN :
         IF ctxDone \/ ~dbOk
         THEN /\ runErr' = "failed to complete job"
              /\ UNCHANGED job
         ELSE /\ job' = Complete(job)
              /\ UNCHANGED runErr
    /\ pc' = "returned"
    /\ UNCHANGED <<inputVars, ctxDone, summaryStore, totalCount,
                   routingStepsCache, chanVars, readerVars, workerVars,
                   collectorVars, processedCount, failedCount, histVars>>

(* ------------------------- the two callers ---------------------------- *)
(* API handler goroutine: on error, jobRepo.Fail(context.Background(), ...) *)
ApiReturn ==
    /\ pc = "returned"
    /\ driver = "api"
    /\ job' = IF runErr # "" THEN Fail(job, runErr) ELSE job
    /\ pc' = "finished"
    /\ UNCHANGED <<inputVars, ctxDone, summaryStore, runErr, totalCount,
                   routingStepsCache, chanVars, readerVars, workerVars,
                   collectorVars, processedCount, failedCount, histVars>>

(* worker service processJob: on error, log and return *)
ProcessJobReturn ==
    /\ pc = "returned"
    /\ driver = "worker"
    /\ pc' = "finished"
    /\ UNCHANGED <<inputVars, ctxDone, job, summaryStore, runErr, totalCount,
                   routingStepsCache, chanVars, readerVars, workerVars,
                   collectorVars, processedCount, failedCount, histVars>>

(* The context handed to RecalculateAll is cancelled while the run is in   *)
(* progress (the worker service passes a context.WithCancel context).      *)
Cancel ==
    /\ driver = "worker"
    /\ ~ctxDone
    /\ pc \notin {"returned", "finished", "crashed"}
    /\ ctxDone' = TRUE
    /\ UNCHANGED <<inputVars, job, summaryStore, pc, runErr, totalCount,
                   routingStepsCache, chanVars, readerVars, workerVars,
                   collectorVars, processedCount, failedCount, histVars>>

(* ---------------------------- channels -------------------------------- *)
(* variant of ChanCap: a queue nothing can be put on *)
ChanCapNone(size) == 0

(* make(chan variantWork, batchSize*2); make(chan *entity.VariantCostSummary, batchSize*2) *)
ChanCap(size) == 2 * size

(* variant of RangeEnds: the loop ends as soon as the channel is empty *)
RangeEndsWhenEmpty(ch, closed) == ch = <<>>

(* `for x := range ch` leaves the loop: ch is closed and drained *)
RangeEnds(ch, closed) == ch = <<>> /\ closed

(* --------------------------- dispatcher ------------------------------- *)
(* variant of ListFails in which the query does not look at the context *)
ListFailsOnDbOnly(done, dbOk) == ~dbOk

(* variantRepo.ListWithRouting(ctx, ...) returns an error when the query  *)
(* fails or its context is cancelled                                      *)
ListFails(done, dbOk) == done \/ ~dbOk

(* variants, err := wp.variantRepo.ListWithRouting(ctx, batchSize, offset) *)
ReaderFetch ==
    /\ readerPc = "fetch"
    /\ \E dbOk \in BOOLEAN :
         IF ListFails(ctxDone, dbOk)
         THEN /\ readerErr' = TRUE
              /\ readerPc' = "done"
              /\ workClosed' = TRUE
              /\ UNCHANGED <<page, pageIdx>>
         ELSE LET variants == ListWithRouting(batchSize, offset)
              IN IF Len(variants) = 0
                 THEN /\ readerPc' = "done"
                      /\ workClosed' = TRUE
                      /\ UNCHANGED <<page, pageIdx, readerErr>>
                 ELSE /\ page' = variants
                      /\ pageIdx' = 1
                      /\ readerPc' = "send"
                      /\ UNCHANGED <<workClosed, readerErr>>
    /\ UNCHANGED <<inputVars, ctxDone, job, summaryStore, pc, runErr,
                   totalCount, routingStepsCache, workChan, resultChan,
                   resultClosed, offset, workerVars, collectorVars,
                   processedCount, failedCount, enqueued, failedVariants,
                   attempted, flushLog>>

(* variant of NextOffset that advances by one row per page *)
NextOffsetByOne(off, variants) == off + 1

(* offset += len(variants) *)
NextOffset(off, variants) == off + Len(variants)

(* select { case workChan <- variantWork{...}: } *)
ReaderSend ==
    /\ readerPc = "send"
    /\ Len(workChan) < ChanCap(batchSize)
    /\ workChan' = Append(workChan, page[pageIdx])
    /\ enqueued' = enqueued \cup {page[pageIdx].ID}
    /\ IF pageIdx < Len(page)
       THEN /\ pageIdx' = pageIdx + 1
            /\ UNCHANGED <<readerPc, offset>>
       ELSE /\ offset' = NextOffset(offset, page)
            /\ readerPc' = "fetch"
            /\ UNCHANGED pageIdx
    /\ UNCHANGED <<inputVars, ctxDone, job, summaryStore, pc, runErr,
                   totalCount, routingStepsCache, workClosed, resultChan,
                   resultClosed, page, workerVars, collectorVars,
                   processedCount, failedCount, failedVariants, attempted,
                   flushLog, readerErr>>

(* select { case <-ctx.Done(): return }, with the deferred close(workChan) *)
ReaderCancelled ==
    /\ readerPc = "send"
    /\ ctxDone
    /\ readerPc' = "done"
    /\ workClosed' = TRUE
    /\ UNCHANGED <<inputVars, ctxDone, job, summaryStore, pc, runErr,
                   totalCount, routingStepsCache, workChan, resultChan,
                   resultClosed, offset, page, pageIdx, workerVars,
                   collectorVars, processedCount, failedCount, histVars>>

(* ----------------------------- workers -------------------------------- *)
(* variant of CacheMiss that lets an empty step list through *)
CacheMissAbsentOnly(cache, routingID) == routingID \notin DOMAIN cache

(* true when the worker counts the item as failed instead of computing it *)
CacheMiss(cache, routingID) ==
    routingID \notin DOMAIN cache \/ Len(cache[routingID]) = 0

(* variant of CacheAfterLookup in which a lookup of an absent key stores   *)
(* the zero value under it                                                *)
CacheAfterLookupInsert(cache, routingID) ==
    [r \in DOMAIN cache \cup {routingID} |->
        IF r \in DOMAIN cache THEN cache[r] ELSE <<>>]

(* steps, ok := routingStepsCache[work.RoutingID]: the comma-ok read of a *)
(* Go map leaves the map as it was, whether or not the key is present     *)
CacheAfterLookup(cache, routingID) == cache

(* for work := range workChan { steps, ok := cache[work.RoutingID] ... } *)
WorkerRecv(w) ==
    /\ workerPc[w] = "recv"
    /\ workChan # <<>>
    /\ LET work == Head(workChan)
       IN /\ workChan' = Tail(workChan)
          /\ routingStepsCache' =
                CacheAfterLookup(routingStepsCache, work.RoutingID)
          /\ IF CacheMiss(routingStepsCache, work.RoutingID)
             THEN /\ failedCount' = failedCount + 1
                  /\ failedVariants' = failedVariants \cup {work.ID}
                  /\ UNCHANGED workerVars
             ELSE /\ workerItem' =
                       [workerItem EXCEPT ![w] =
                           CalculateVariantFast(work.ID,
                               routingStepsCache[work.RoutingID],
                               calcBag, clock)]
                  /\ workerPc' = [workerPc EXCEPT ![w] = "send"]
                  /\ UNCHANGED <<failedCount, failedVariants>>
    /\ UNCHANGED <<inputVars, ctxDone, job, summaryStore, pc, runErr,
                   totalCount, workClosed, resultChan,
                   resultClosed, readerVars, collectorVars, processedCount,
                   enqueued, attempted, flushLog, readerErr>>

(* resultChan <- summary *)
WorkerSend(w) ==
    /\ workerPc[w] = "send"
    /\ Len(resultChan) < ChanCap(batchSize)
    /\ resultChan' = Append(resultChan, workerItem[w])
    /\ workerItem' = [workerItem EXCEPT ![w] = NoSummary]
    /\ workerPc' = [workerPc EXCEPT ![w] = "recv"]
    /\ UNCHANGED <<inputVars, ctxDone, job, summaryStore, pc, runErr,
                   totalCount, routingStepsCache, workChan, workClosed,
                   resultClosed, readerVars, collectorVars, processedCount,
                   failedCount, histVars>>

(* range workChan ends: channel closed and drained; defer wg.Done() *)
WorkerExit(w) ==
    /\ workerPc[w] = "recv"
    /\ RangeEnds(workChan, workClosed)
    /\ workerPc' = [workerPc EXCEPT ![w] = "done"]
    /\ UNCHANGED <<inputVars, ctxDone, job, summaryStore, pc, runErr,
                   totalCount, routingStepsCache, chanVars, readerVars,
                   workerItem, collectorVars, processedCount, failedCount,
                   histVars>>

(* ---------------------------- collector ------------------------------- *)
IDs(summaries) == {summaries[i].YarnVariantID : i \in 1..Len(summaries)}

(* variant of OnConflictUpdate whose SET list leaves out                  *)
(* last_recalculated_at                                                   *)
OnConflictUpdateCosts(old, excluded) ==
    [excluded EXCEPT !.LastRecalculatedAt = old.LastRecalculatedAt]

(* ON CONFLICT (yarn_variant_id) DO UPDATE SET <the four costs,           *)
(* last_recalculated_at, version_hash> = EXCLUDED.<same>: every column of *)
(* the summary is taken from the new row                                  *)
OnConflictUpdate(old, excluded) == excluded

(* the rows of the table for one inserted summary *)
Upserted(store, summary) ==
    LET conflict == {row \in store :
                       row.YarnVariantID = summary.YarnVariantID}
    IN IF conflict = {} THEN {summary}
       ELSE {OnConflictUpdate(old, summary) : old \in conflict}

(* variant of TxOutcome without the deferred rollback: what the           *)
(* statements wrote stays when the call returns an error                  *)
TxOutcomeNoRollback(before, written, err) == written

(* tx := pool.Begin; defer tx.Rollback(ctx); ...; return n, tx.Commit():  *)
(* the table after the call is what the statements wrote if Commit        *)
(* succeeded, and what it was before Begin on every error return          *)
TxOutcome(before, written, err) == IF err THEN before ELSE written

(* variant of UpsertBatch without the ON CONFLICT clause: a second row *)
UpsertBatchInsert(store, summaries, err) ==
    IF err THEN store ELSE store \cup Range(summaries)

(* summaryRepo.UpsertBatch: one transaction, all rows or none; a row with  *)
(* the same yarn_variant_id is replaced (ON CONFLICT ... DO UPDATE)        *)
UpsertBatch(store, summaries, err) ==
    TxOutcome(store,
              {row \in store : row.YarnVariantID \notin IDs(summaries)}
                  \cup UNION {Upserted(store, summaries[i]) :
                                i \in 1..Len(summaries)},
              err)

(* variant of AfterFlush in which a failed flush ends the collector *)
AfterFlushAbort(err) == IF err THEN "done" ELSE "recv"

(* after a full-batch flush the collector logs an error, if any, and stays *)
(* in its receive loop                                                     *)
AfterFlush(err) == "recv"

(* variant of CountFlushed that counts a flush as one record *)
CountFlushedOnce(count, n, err) == count + 1

(* the in-process counter after a flush of n rows *)
CountFlushed(count, n, err) == count + n

(* variant of FlushDue that lets the buffer grow one past the batch size *)
FlushDueLate(buf, size) == Len(buf) > size

(* if len(buffer) >= wp.batchSize *)
FlushDue(buf, size) == Len(buf) >= size

(* for summary := range resultChan { append; flush when len >= batchSize } *)
CollectorRecv ==
    /\ collectorPc = "recv"
    /\ resultChan # <<>>
    /\ resultChan' = Tail(resultChan)
    /\ LET buf == Append(buffer, Head(resultChan))
       IN IF FlushDue(buf, batchSize)
          THEN \E dbOk \in BOOLEAN :
                 LET err == ctxDone \/ ~dbOk
                 IN /\ summaryStore' = UpsertBatch(summaryStore, buf, err)
                    /\ attempted' = attempted \cup IDs(buf)
                    /\ flushLog' = Append(flushLog, IF err THEN "err" ELSE "ok")
                    /\ processedCount' = CountFlushed(processedCount, Len(buf), err)
                    /\ job' = Exec(ctxDone, job, UpdateProgress(job, Len(buf), 0))
                    /\ buffer' = <<>>
                    /\ collectorPc' = AfterFlush(err)
          ELSE /\ buffer' = buf
               /\ UNCHANGED <<summaryStore, attempted, flushLog,
                              processedCount, job, collectorPc>>
    /\ UNCHANGED <<inputVars, ctxDone, pc, runErr, totalCount,
                   routingStepsCache, workChan, workClosed, resultClosed,
                   readerVars, workerVars, failedCount, enqueued,
                   failedVariants, readerErr>>

(* range resultChan ends; "Flush remaining"; defer resultWg.Done() *)
CollectorFinal ==
    /\ collectorPc = "recv"
    /\ RangeEnds(resultChan, resultClosed)
    /\ IF Len(buffer) > 0
       THEN \E dbOk \in BOOLEAN :
              LET err == ctxDone \/ ~dbOk
              IN /\ summaryStore' = UpsertBatch(summaryStore, buffer, err)
                 /\ attempted' = attempted \cup IDs(buffer)
                 /\ flushLog' = Append(flushLog, IF err THEN "err" ELSE "ok")
                 /\ processedCount' = CountFlushed(processedCount, Len(buffer), err)
       ELSE UNCHANGED <<summaryStore, attempted, flushLog, processedCount>>
    /\ collectorPc' = "done"
    /\ UNCHANGED <<inputVars, ctxDone, job, pc, runErr, totalCount,
                   routingStepsCache, chanVars, readerVars, workerVars,
                   buffer, failedCount, enqueued, failedVariants, readerErr>>

(* --------------------------- specification ---------------------------- *)
Next ==
    \/ CountVariants
    \/ LoadCache
    \/ MarkRunning
    \/ CloseResults
    \/ CompleteJob
    \/ ApiReturn
    \/ ProcessJobReturn
    \/ Cancel
    \/ ReaderFetch
    \/ ReaderSend
    \/ ReaderCancelled
    \/ \E w \in Workers : WorkerRecv(w)
    \/ \E w \in Workers : WorkerSend(w)
    \/ \E w \in Workers : WorkerExit(w)
    \/ CollectorRecv
    \/ CollectorFinal

Spec == Init /\ [][Next]_vars

(* weak fairness: every goroutine that can take a step eventually does,    *)
(* and every database call returns; cancellation is never forced           *)
Fairness ==
    /\ WF_vars(CountVariants) /\ WF_vars(LoadCache) /\ WF_vars(MarkRunning)
    /\ WF_vars(CloseResults) /\ WF_vars(CompleteJob)
    /\ WF_vars(ApiReturn) /\ WF_vars(ProcessJobReturn)
    /\ WF_vars(ReaderFetch) /\ WF_vars(ReaderSend \/ ReaderCancelled)
    /\ \A w \in Workers :
         WF_vars(WorkerRecv(w)) /\ WF_vars(WorkerSend(w)) /\ WF_vars(WorkerExit(w))
    /\ WF_vars(CollectorRecv) /\ WF_vars(CollectorFinal)

FairSpec == Spec /\ Fairness

(* -------------- runs whose queues fill up (backpressure) -------------- *)
(* Catalogs of MaxVariants + 1 active variants with batch_size = 1: both  *)
(* queues have capacity 2, so the dispatcher can find the work queue full *)
(* and a worker can find the result queue full.                           *)
LongCatalogs ==
    [1..(MaxVariants + 1) -> [is_active : {TRUE}, routing_template_id : Routings]]

PressureInit ==
    /\ catalog \in LongCatalogs
    /\ batchSize = 1
    /\ driver \in {"api", "worker"}
    /\ ctxDone = FALSE
    /\ job = NewJob
    /\ summaryStore = {}
    /\ pc = "count"
    /\ runErr = ""
    /\ totalCount = 0
    /\ routingStepsCache = <<>>
    /\ workChan = <<>> /\ workClosed = FALSE
    /\ resultChan = <<>> /\ resultClosed = FALSE
    /\ readerPc = "idle" /\ offset = 0 /\ page = <<>> /\ pageIdx = 1
    /\ workerPc = [w \in Workers |-> "idle"]
    /\ workerItem = [w \in Workers |-> NoSummary]
    /\ collectorPc = "idle" /\ buffer = <<>>
    /\ processedCount = 0 /\ failedCount = 0
    /\ enqueued = {} /\ failedVariants = {} /\ attempted = {}
    /\ flushLog = <<>> /\ readerErr = FALSE
    /\ clock = 1 /\ runsLeft = 0 /\ storeLog = <<>>
    /\ calcBag = BaseParams /\ calcLast = NoCall /\ calcPrev = NoCall
    /\ AuxInit

PressureSpec == PressureInit /\ [][Next]_vars

FairPressureSpec == PressureSpec /\ Fairness

(* ------------- concurrent callers on a table of jobs ------------------ *)
(* Every registry method is one statement sent with pool.Exec; the        *)
(* database applies a statement to the rows its WHERE clause selects as   *)
(* one atomic step, so concurrent calls are interleaved whole statements. *)
JobIDs == {"j1", "j2"}
Callers == 1..MaxCallers

(* the rows before the calls: two running jobs, the second one with       *)
(* counters already above zero                                            *)
InitialRow(id) ==
    [NewJob EXCEPT !.status = "RUNNING",
                   !.total_records = MaxCounter,
                   !.processed_records = IF id = "j1" THEN 0 ELSE 1,
                   !.failed_records = IF id = "j1" THEN 0 ELSE 1]

TableCalls ==
    [op : {"UpdateProgress"}, id : JobIDs, processed : 0..MaxDelta,
     failed : 0..1, errorMsg : {""}]
      \cup [op : {"Complete"}, id : JobIDs, processed : {0}, failed : {0},
            errorMsg : {""}]
      \cup [op : {"Fail"}, id : JobIDs, processed : {0}, failed : {0},
            errorMsg : {"error"}]

TableInit ==
    /\ catalog = <<>> /\ batchSize = 1 /\ driver = "table"
    /\ ctxDone = FALSE
    /\ job = NewJob
    /\ summaryStore = {}
    /\ pc = "table"
    /\ runErr = ""
    /\ totalCount = 0
    /\ routingStepsCache = <<>>
    /\ workChan = <<>> /\ workClosed = FALSE
    /\ resultChan = <<>> /\ resultClosed = FALSE
    /\ readerPc = "idle" /\ offset = 0 /\ page = <<>> /\ pageIdx = 1
    /\ workerPc = [w \in Workers |-> "idle"]
    /\ workerItem = [w \in Workers |-> NoSummary]
    /\ collectorPc = "idle" /\ buffer = <<>>
    /\ processedCount = 0 /\ failedCount = 0
    /\ enqueued = {} /\ failedVariants = {} /\ attempted = {}
    /\ flushLog = <<>> /\ readerErr = FALSE
    /\ clock = 1 /\ runsLeft = 0 /\ storeLog = <<>>
    /\ calcBag = <<>> /\ calcLast = NoCall /\ calcPrev = NoCall
    /\ progressRead = NoRead /\ evalLast = NoEval
    /\ runs = <<>> /\ polled = <<>>
    /\ jobs = [id \in JobIDs |-> InitialRow(id)]
    /\ callers \in [Callers -> [call : TableCalls, done : {FALSE}]]

TableFrame ==
    UNCHANGED <<catalog, batchSize, driver, clock, runsLeft, storeLog,
                calcVars, progressRead, evalLast, dispatchVars, job, ctxDone,
                summaryStore,
                pc, runErr, totalCount, routingStepsCache, chanVars,
                readerVars, workerVars, collectorVars, processedCount,
                failedCount, histVars>>

(* variant of WhereID without the WHERE clause *)
WhereAny(table, id) == DOMAIN table

(* WHERE id = $1 *)
WhereID(table, id) == {i \in DOMAIN table : i = id}

Pending(c, op) == pc = "table" /\ ~callers[c].done /\ callers[c].call.op = op

Returned(c) == callers' = [callers EXCEPT ![c].done = TRUE]

(* r.pool.Exec(ctx, `UPDATE batch_jobs SET processed_records =            *)
(*   processed_records + $2, failed_records = failed_records + $3         *)
(*   WHERE id = $1`, id, processed, failed)                               *)
TblUpdateProgress(c) ==
    /\ Pending(c, "UpdateProgress")
    /\ LET call == callers[c].call
       IN jobs' = [i \in DOMAIN jobs |->
                    IF i \in WhereID(jobs, call.id)
                    THEN UpdateProgress(jobs[i], call.processed, call.failed)
                    ELSE jobs[i]]
    /\ Returned(c)
    /\ TableFrame

(* UPDATE batch_jobs SET status=$2, finished_at=$3 WHERE id=$1 *)
TblComplete(c) ==
    /\ Pending(c, "Complete")
    /\ jobs' = [i \in DOMAIN jobs |->
                 IF i \in WhereID(jobs, callers[c].call.id)
                 THEN Complete(jobs[i])
                 ELSE jobs[i]]
    /\ Returned(c)
    /\ TableFrame

(* UPDATE batch_jobs SET status=$2, error_message=$3, finished_at=$4 WHERE id=$1 *)
TblFail(c) ==
    /\ Pending(c, "Fail")
    /\ jobs' = [i \in DOMAIN jobs |->
                 IF i \in WhereID(jobs, callers[c].call.id)
                 THEN Fail(jobs[i], callers[c].call.errorMsg)
                 ELSE jobs[i]]
    /\ Returned(c)
    /\ TableFrame

TableNext ==
    \/ \E c \in Callers : TblUpdateProgress(c)
    \/ \E c \in Callers : TblComplete(c)
    \/ \E c \in Callers : TblFail(c)

TableSpec == TableInit /\ [][TableNext]_vars

(* ------------------ a panic inside a pipeline task -------------------- *)
(* The progress reporter, the workers, the collector and the dispatcher   *)
(* are started with `go func() { ... }()`; none of the functions has a    *)
(* deferred recover(). A panic in a goroutine that is not recovered ends  *)
(* the process: no further statement of any task runs.                    *)
TaskPanic ==
    /\ pc \in {"waitWorkers", "waitCollector"}
    /\ pc' = "crashed"
    /\ readerPc' = "crashed"
    /\ workerPc' = [w \in Workers |-> "crashed"]
    /\ collectorPc' = "crashed"
    /\ UNCHANGED <<inputVars, ctxDone, job, summaryStore, runErr, totalCount,
                   routingStepsCache, chanVars, offset, page, pageIdx,
                   workerItem, buffer, processedCount, failedCount, histVars>>

PanicNext == Next \/ TaskPanic

PanicSpec == Init /\ [][PanicNext]_vars

(* ------------- the job registry under any operation sequence ---------- *)
Statuses == {"PENDING", "RUNNING", "COMPLETED", "FAILED", "CANCELLED"}
TerminalStatuses == {"COMPLETED", "FAILED", "CANCELLED"}
NoJob == [status |-> "NONE", total_records |-> 0, processed_records |-> 0,
          failed_records |-> 0, error_message |-> "", finished_at |-> FALSE]

(* INSERT INTO batch_jobs: the row is the entity handed in *)
Create(j) == j

RegInit ==
    /\ catalog = <<>> /\ batchSize = 1 /\ driver = "registry"
    /\ ctxDone = FALSE
    /\ job = NoJob
    /\ summaryStore = {}
    /\ pc = "registry"
    /\ runErr = ""
    /\ totalCount = 0
    /\ routingStepsCache = <<>>
    /\ workChan = <<>> /\ workClosed = FALSE
    /\ resultChan = <<>> /\ resultClosed = FALSE
    /\ readerPc = "idle" /\ offset = 0 /\ page = <<>> /\ pageIdx = 1
    /\ workerPc = [w \in Workers |-> "idle"]
    /\ workerItem = [w \in Workers |-> NoSummary]
    /\ collectorPc = "idle" /\ buffer = <<>>
    /\ processedCount = 0 /\ failedCount = 0
    /\ enqueued = {} /\ failedVariants = {} /\ attempted = {}
    /\ flushLog = <<>> /\ readerErr = FALSE
    /\ clock = 1 /\ runsLeft = 0 /\ storeLog = <<>>
    /\ calcBag = <<>> /\ calcLast = NoCall /\ calcPrev = NoCall
    /\ AuxInit

RegFrame ==
    UNCHANGED <<inputVars, ctxDone, summaryStore, pc, runErr, totalCount,
                routingStepsCache, chanVars, readerVars, workerVars,
                collectorVars, processedCount, failedCount, histVars>>

RegCreate ==
    /\ pc = "registry" /\ job = NoJob
    /\ \E total \in 0..MaxCounter :
         job' = Create([NewJob EXCEPT !.total_records = total])
    /\ RegFrame

RegUpdateStatus ==
    /\ pc = "registry" /\ job # NoJob
    /\ \E st \in Statuses, processed \in 0..MaxDelta, failed \in 0..MaxDelta :
         job' = UpdateStatus(job, st, processed, failed)
    /\ RegFrame

RegUpdateProgress ==
    /\ pc = "registry" /\ job # NoJob
    /\ \E processed \in 0..MaxDelta, failed \in 0..MaxDelta :
         /\ job.processed_records + processed <= MaxCounter
         /\ job.failed_records + failed <= MaxCounter
         /\ job' = UpdateProgress(job, processed, failed)
    /\ RegFrame

RegComplete ==
    /\ pc = "registry" /\ job # NoJob
    /\ job' = Complete(job)
    /\ RegFrame

RegFail ==
    /\ pc = "registry" /\ job # NoJob
    /\ job' = Fail(job, "error")
    /\ RegFrame

(* job.Progress() on the row read from the registry; the receiver is not *)
(* written                                                                *)
RegProgress ==
    /\ pc = "registry" /\ job # NoJob
    /\ progressRead' = [called |-> TRUE,
                        processed_records |-> job.processed_records,
                        total_records |-> job.total_records,
                        value |-> Progress(job)]
    /\ UNCHANGED <<catalog, batchSize, driver, clock, runsLeft, storeLog,
                   calcVars, jobs, callers, evalLast, dispatchVars, job,
                   ctxDone,
                   summaryStore, pc, runErr, totalCount, routingStepsCache,
                   chanVars, readerVars, workerVars, collectorVars,
                   processedCount, failedCount, histVars>>

RegNext ==
    \/ RegProgress
    \/ RegCreate
    \/ RegUpdateStatus
    \/ RegUpdateProgress
    \/ RegComplete
    \/ RegFail

RegistrySpec == RegInit /\ [][RegNext]_vars

(* ------------- RecalculateAll run twice back to back ------------------ *)
(* no database call of the run failed and the context was not cancelled *)
CleanRun ==
    /\ runErr = "" /\ ~readerErr /\ ~ctxDone
    /\ \A i \in 1..Len(flushLog) : flushLog[i] = "ok"
    /\ DOMAIN routingStepsCache = ListUniqueRoutingIDs

RerunInit ==
    /\ catalog \in Catalogs
    /\ batchSize \in 1..MaxBatch
    /\ driver \in {"api", "worker"}
    /\ ctxDone = FALSE
    /\ job = NewJob
    /\ summaryStore = {}
    /\ pc = "count"
    /\ runErr = ""
    /\ totalCount = 0
    /\ routingStepsCache = <<>>
    /\ workChan = <<>> /\ workClosed = FALSE
    /\ resultChan = <<>> /\ resultClosed = FALSE
    /\ readerPc = "idle" /\ offset = 0 /\ page = <<>> /\ pageIdx = 1
    /\ workerPc = [w \in Workers |-> "idle"]
    /\ workerItem = [w \in Workers |-> NoSummary]
    /\ collectorPc = "idle" /\ buffer = <<>>
    /\ processedCount = 0 /\ failedCount = 0
    /\ enqueued = {} /\ failedVariants = {} /\ attempted = {}
    /\ flushLog = <<>> /\ readerErr = FALSE
    /\ clock = 1 /\ runsLeft = 1 /\ storeLog = <<>>
    /\ calcBag = BaseParams /\ calcLast = NoCall /\ calcPrev = NoCall
    /\ AuxInit

(* the caller creates the next job and calls RecalculateAll again, with    *)
(* the same catalog, routings and baseParams, at a later time              *)
StartNextRun ==
    /\ pc = "finished"
    /\ runsLeft > 0
    /\ runsLeft' = runsLeft - 1
    /\ clock' = clock + 1
    /\ storeLog' = Append(storeLog, [store |-> summaryStore, clean |-> CleanRun])
    /\ job' = NewJob
    /\ pc' = "count"
    /\ runErr' = ""
    /\ totalCount' = 0
    /\ routingStepsCache' = <<>>
    /\ workChan' = <<>> /\ workClosed' = FALSE
    /\ resultChan' = <<>> /\ resultClosed' = FALSE
    /\ readerPc' = "idle" /\ offset' = 0 /\ page' = <<>> /\ pageIdx' = 1
    /\ workerPc' = [w \in Workers |-> "idle"]
    /\ workerItem' = [w \in Workers |-> NoSummary]
    /\ collectorPc' = "idle" /\ buffer' = <<>>
    /\ processedCount' = 0 /\ failedCount' = 0
    /\ enqueued' = {} /\ failedVariants' = {} /\ attempted' = {}
    /\ flushLog' = <<>> /\ readerErr' = FALSE
    /\ UNCHANGED <<catalog, batchSize, driver, ctxDone, summaryStore, calcVars,
                   auxVars>>

RerunNext ==
    \/ CountVariants
    \/ LoadCache
    \/ MarkRunning
    \/ CloseResults
    \/ CompleteJob
    \/ ApiReturn
    \/ ProcessJobReturn
    \/ ReaderFetch
    \/ ReaderSend
    \/ \E w \in Workers : WorkerRecv(w)
    \/ \E w \in Workers : WorkerSend(w)
    \/ \E w \in Workers : WorkerExit(w)
    \/ CollectorRecv
    \/ CollectorFinal
    \/ StartNextRun

RerunSpec == RerunInit /\ [][RerunNext]_vars

(* --------- CalculateVariantFast called on any steps and bag ----------- *)
LaborFormula == <<Id("labor_hours_1"), Op("*"), Id("labor_rate")>>
UnknownFormula == <<Id("labor_hours_4"), Op("*"), Id("labor_rate")>>
RatioFormula == <<Id("labor_rate"), Op("/"), Id("labor_hours_1")>>
SyntaxFormula == <<Id("labor_rate"), Op("+")>>

CalcStepLists ==
    {<<>>, <<LaborFormula>>, <<UnknownFormula>>, <<RatioFormula>>,
     <<LaborFormula, UnknownFormula, RatioFormula>>,
     <<SyntaxFormula, LaborFormula>>}

(* a key the bag does not hold *)
Absent == Val("absent", 0)

MaterialChoices ==
    {Absent} \cup {Val(t, 2 * Scale) : t \in NumericTypes \cup {"string"}}
OverheadChoices ==
    {Absent, Val("float64", 5), Val("float64", 0), Val("int64", 2 * Scale)}
RateChoices == {Val("float64", 0), Val("float64", 25 * Scale)}
HoursChoices == {Val("float64", 0), Val("int", 8 * Scale)}

BagOf(material, overhead, rate, hours) ==
    LET all == [material_cost |-> material, overhead_percentage |-> overhead,
                labor_rate |-> rate, labor_hours_1 |-> hours]
    IN [key \in {k \in DOMAIN all : all[k] # Absent} |-> all[key]]

CalcBags ==
    {BagOf(m, o, r, h) : m \in MaterialChoices, o \in OverheadChoices,
                         r \in RateChoices, h \in HoursChoices}

CalcInit ==
    /\ catalog = <<>> /\ batchSize = 1 /\ driver = "calc"
    /\ ctxDone = FALSE
    /\ job = NoJob
    /\ summaryStore = {}
    /\ pc = "calc"
    /\ runErr = ""
    /\ totalCount = 0
    /\ routingStepsCache = <<>>
    /\ workChan = <<>> /\ workClosed = FALSE
    /\ resultChan = <<>> /\ resultClosed = FALSE
    /\ readerPc = "idle" /\ offset = 0 /\ page = <<>> /\ pageIdx = 1
    /\ workerPc = [w \in Workers |-> "idle"]
    /\ workerItem = [w \in Workers |-> NoSummary]
    /\ collectorPc = "idle" /\ buffer = <<>>
    /\ processedCount = 0 /\ failedCount = 0
    /\ enqueued = {} /\ failedVariants = {} /\ attempted = {}
    /\ flushLog = <<>> /\ readerErr = FALSE
    /\ clock = 1 /\ runsLeft = 0 /\ storeLog = <<>>
    /\ calcBag \in CalcBags /\ calcLast = NoCall /\ calcPrev = NoCall
    /\ AuxInit

(* one call e.CalculateVariantFast(variantID, steps, inputParams); the    *)
(* clock advances between calls                                           *)
CalcCall ==
    /\ pc = "calc"
    /\ clock <= MaxClock
    /\ \E variantID \in 1..MaxVariants, steps \in CalcStepLists :
         /\ calcPrev' = calcLast
         /\ calcLast' =
              [variantID |-> variantID, steps |-> steps, now |-> clock,
               summary |-> CalculateVariantFast(variantID, steps, calcBag, clock)]
    /\ clock' = clock + 1
    /\ UNCHANGED <<catalog, batchSize, driver, runsLeft, storeLog, calcBag,
                   auxVars, ctxDone, job, summaryStore, pc, runErr, totalCount,
                   routingStepsCache, chanVars, readerVars, workerVars,
                   collectorVars, processedCount, failedCount, histVars>>

CalcNext == CalcCall

CalcSpec == CalcInit /\ [][CalcNext]_vars

(* ------------- Parser.Evaluate on any formula and bag ----------------- *)
(* Formulas are written from syntax trees: a leaf is an identifier or a   *)
(* literal, an inner node an operator with its operands.                  *)
Var(s) == [op |-> "id", s |-> s]
Lit(n) == [op |-> "num", v |-> n]
Bin(op, l, r) == [op |-> op, l |-> l, r |-> r]
Tern(c, l, r) == [op |-> "?:", c |-> c, l |-> l, r |-> r]
NoAST == [op |-> "none"]

ArithOps == {"+", "-", "*", "/"}

(* binding strength of the operator at the root of a tree *)
Prec(a) ==
    CASE a.op = "?:" -> 1
      [] a.op \in CompareOps -> 2
      [] a.op \in {"+", "-"} -> 3
      [] a.op \in {"*", "/"} -> 4
      [] OTHER -> 5

Paren(toks) == <<Op("(")>> \o toks \o <<Op(")")>>

(* the text of a tree, with parentheses only where the usual precedence   *)
(* and left-associativity (right-associativity of ?:) would group the     *)
(* operands differently                                                   *)
RECURSIVE Infix(_)
Infix(a) ==
    IF a.op = "id" THEN <<Id(a.s)>>
    ELSE IF a.op = "num" THEN <<Num(a.v)>>
    ELSE IF a.op = "?:"
         THEN (IF Prec(a.c) <= 1 THEN Paren(Infix(a.c)) ELSE Infix(a.c))
                \o <<Op("?")>>
                \o (IF Prec(a.l) <= 1 THEN Paren(Infix(a.l)) ELSE Infix(a.l))
                \o <<Op(":")>>
                \o Infix(a.r)
    ELSE (IF Prec(a.l) < Prec(a) THEN Paren(Infix(a.l)) ELSE Infix(a.l))
           \o <<Op(a.op)>>
           \o (IF Prec(a.r) <= Prec(a) THEN Paren(Infix(a.r)) ELSE Infix(a.r))

Quantity == Var("quantity")
Price == Var("price")
Discount == Var("discount")

(* x op1 y op2 z in both groupings, for all pairs of arithmetic operators *)
ArithASTs ==
    {Bin(op2, Bin(op1, Quantity, Price), Discount) : op1 \in ArithOps, op2 \in ArithOps}
      \cup {Bin(op1, Quantity, Bin(op2, Price, Discount)) :
              op1 \in ArithOps, op2 \in ArithOps}

(* quantity cmp 100 ? price * 0.9 : price, for every comparison *)
TernaryASTs ==
    {Tern(Bin(cmp, Quantity, Lit(100 * Scale)),
          Bin("*", Price, Lit(9)), Price) : cmp \in CompareOps}

OtherASTs ==
    { Bin("*", Price, Bin("+", Lit(Scale), Bin("/", Discount, Lit(100 * Scale)))),
      Tern(Bin(">", Bin("+", Quantity, Price), Bin("*", Quantity, Discount)),
           Bin("-", Quantity, Price), Bin("+", Price, Discount)),
      Bin("+", Tern(Bin("<", Quantity, Price), Quantity, Price), Discount),
      Bin("*", Discount, Tern(Bin("==", Quantity, Price), Quantity, Price)),
      Tern(Bin(">", Quantity, Price), Quantity,
           Tern(Bin(">", Price, Discount), Price, Discount)),
      Tern(Bin("<=", Quantity, Price),
           Tern(Bin("!=", Price, Discount), Price, Discount), Quantity),
      Bin(">", Quantity, Price),
      Bin("+", Bin("<", Quantity, Price), Discount) }

EvalASTs == ArithASTs \cup TernaryASTs \cup OtherASTs

(* texts that are not formulas *)
MalformedFormulas ==
    { <<Op("("), Op("("), Id("quantity"), Op("+"), Id("price")>>,
      <<Id("quantity"), Op("+"), Id("price"), Op(")")>>,
      <<Op("("), Id("quantity"), Op("+"), Id("price"), Op(")"), Op(")")>>,
      <<Id("quantity"), Op("+")>>,
      <<Id("quantity"), Op("*"), Op("/"), Id("price")>>,
      <<Id("quantity"), Id("price")>>,
      <<Id("quantity"), Op(">"), Id("price"), Op("?"), Id("price")>>,
      <<Op("("), Op(")")>>,
      <<>> }

EvalInputs ==
    {[expression |-> Infix(a), ast |-> a] : a \in EvalASTs}
      \cup {[expression |-> toks, ast |-> NoAST] : toks \in MalformedFormulas}

QuantityChoices == {Absent, Val("float64", 0), Val("float64", 150 * Scale)}
PriceChoices == {Absent, Val("float64", 100 * Scale), Val("int", 150 * Scale)}
DiscountChoices == {Absent, Val("float64", 0), Val("int64", 2 * Scale)}

EvalBags ==
    {LET all == [quantity |-> q, price |-> p, discount |-> d]
     IN [key \in {k \in DOMAIN all : all[k] # Absent} |-> all[key]] :
       q \in QuantityChoices, p \in PriceChoices, d \in DiscountChoices}

EvalInit ==
    /\ catalog = <<>> /\ batchSize = 1 /\ driver = "eval"
    /\ ctxDone = FALSE
    /\ job = NewJob
    /\ summaryStore = {}
    /\ pc = "eval"
    /\ runErr = ""
    /\ totalCount = 0
    /\ routingStepsCache = <<>>
    /\ workChan = <<>> /\ workClosed = FALSE
    /\ resultChan = <<>> /\ resultClosed = FALSE
    /\ readerPc = "idle" /\ offset = 0 /\ page = <<>> /\ pageIdx = 1
    /\ workerPc = [w \in Workers |-> "idle"]
    /\ workerItem = [w \in Workers |-> NoSummary]
    /\ collectorPc = "idle" /\ buffer = <<>>
    /\ processedCount = 0 /\ failedCount = 0
    /\ enqueued = {} /\ failedVariants = {} /\ attempted = {}
    /\ flushLog = <<>> /\ readerErr = FALSE
    /\ clock = 1 /\ runsLeft = 0 /\ storeLog = <<>>
    /\ calcBag \in EvalBags /\ calcLast = NoCall /\ calcPrev = NoCall
    /\ progressRead = NoRead /\ jobs = <<>> /\ callers = <<>>
    /\ evalLast = NoEval
    /\ runs = <<>> /\ polled = <<>>

(* one call parser.Evaluate(expression, params) *)
EvalCall ==
    /\ pc = "eval"
    /\ \E in \in EvalInputs :
         evalLast' = [called |-> TRUE, expression |-> in.expression,
                      ast |-> in.ast,
                      result |-> Evaluate(in.expression, calcBag)]
    /\ UNCHANGED <<catalog, batchSize, driver, clock, runsLeft, storeLog,
                   calcVars, progressRead, jobs, callers, dispatchVars, job,
                   ctxDone,
                   summaryStore, pc, runErr, totalCount, routingStepsCache,
                   chanVars, readerVars, workerVars, collectorVars,
                   processedCount, failedCount, histVars>>

EvalNext == EvalCall

EvalSpec == EvalInit /\ [][EvalNext]_vars

(* ------ the API's start and the worker service's poll of a job -------- *)
(* The jobs table starts empty.  POST /recalculate/all creates a pending  *)
(* job and starts RecalculateAll on it in a goroutine; the worker service *)
(* lists the recent jobs on every tick and runs RecalculateAll, one job   *)
(* after the other, on those its list shows as pending.  A run is at      *)
(* "count" from its invocation to its UpdateStatus(RUNNING) call, at      *)
(* "pipeline" from there to its Complete call, and then "done".           *)
RunOf(id, by) == [id |-> id, by |-> by, at |-> "count"]

InProgress(run) == run.at # "done"

(* the worker service's loop is inside processJob *)
WorkerBusy ==
    \E i \in 1..Len(runs) : runs[i].by = "worker" /\ InProgress(runs[i])

(* the ids ListRecent returns (any fixed order stands for created_at     *)
(* DESC) whose row has status pending                                     *)
ListRecentPending(table) ==
    SelectSeq(<<"j1", "j2">>, LAMBDA id : table[id].status = "PENDING")

DispatchInit ==
    /\ catalog = <<>> /\ batchSize = 1 /\ driver = "dispatch"
    /\ ctxDone = FALSE
    /\ job = NewJob
    /\ summaryStore = {}
    /\ pc = "dispatch"
    /\ runErr = ""
    /\ totalCount = 0
    /\ routingStepsCache = <<>>
    /\ workChan = <<>> /\ workClosed = FALSE
    /\ resultChan = <<>> /\ resultClosed = FALSE
    /\ readerPc = "idle" /\ offset = 0 /\ page = <<>> /\ pageIdx = 1
    /\ workerPc = [w \in Workers |-> "idle"]
    /\ workerItem = [w \in Workers |-> NoSummary]
    /\ collectorPc = "idle" /\ buffer = <<>>
    /\ processedCount = 0 /\ failedCount = 0
    /\ enqueued = {} /\ failedVariants = {} /\ attempted = {}
    /\ flushLog = <<>> /\ readerErr = FALSE
    /\ clock = 1 /\ runsLeft = 0 /\ storeLog = <<>>
    /\ calcBag = <<>> /\ calcLast = NoCall /\ calcPrev = NoCall
    /\ progressRead = NoRead /\ evalLast = NoEval /\ callers = <<>>
    /\ jobs = [id \in JobIDs |-> NoJob]
    /\ runs = <<>> /\ polled = <<>>

DispatchFrame ==
    UNCHANGED <<catalog, batchSize, driver, clock, runsLeft, storeLog,
                calcVars, progressRead, evalLast, callers, job, ctxDone,
                summaryStore, pc, runErr, totalCount, routingStepsCache,
                chanVars, readerVars, workerVars, collectorVars,
                processedCount, failedCount, histVars>>

(* POST /recalculate/all: jobRepo.Create(job), then                       *)
(* go func() { workerPool.RecalculateAll(context.Background(), job.ID) }  *)
ApiPost(id) ==
    /\ pc = "dispatch"
    /\ jobs[id] = NoJob
    /\ Len(runs) < MaxRuns
    /\ jobs' = [jobs EXCEPT ![id] = Create(NewJob)]
    /\ runs' = Append(runs, RunOf(id, "api"))
    /\ UNCHANGED polled
    /\ DispatchFrame

(* case <-ticker.C: jobs, err := jobRepo.ListRecent(ctx, 10) *)
WorkerTick ==
    /\ pc = "dispatch"
    /\ ~WorkerBusy
    /\ polled = <<>>
    /\ ListRecentPending(jobs) # <<>>
    /\ polled' = ListRecentPending(jobs)
    /\ UNCHANGED <<jobs, runs>>
    /\ DispatchFrame

(* for _, job := range jobs { if job.Status == JobStatusPending {         *)
(* processJob(...) } }: the status is the one the list was read with      *)
WorkerProcess ==
    /\ pc = "dispatch"
    /\ ~WorkerBusy
    /\ polled # <<>>
    /\ Len(runs) < MaxRuns
    /\ runs' = Append(runs, RunOf(Head(polled), "worker"))
    /\ polled' = Tail(polled)
    /\ UNCHANGED jobs
    /\ DispatchFrame

(* RecalculateAll returned err: the API goroutine calls jobRepo.Fail,     *)
(* processJob logs and returns                                            *)
AfterRunError(table, run, errorMsg) ==
    IF run.by = "api"
    THEN [table EXCEPT ![run.id] = Fail(@, errorMsg)]
    ELSE table

(* Count and loadRoutingStepsCache, then UpdateStatus(jobID, RUNNING, 0, 0) *)
RunMarkRunning(i) ==
    /\ pc = "dispatch"
    /\ runs[i].at = "count"
    /\ \E dbOk \in BOOLEAN :
         IF dbOk
         THEN /\ jobs' = [jobs EXCEPT ![runs[i].id] =
                             UpdateStatus(@, "RUNNING", 0, 0)]
              /\ runs' = [runs EXCEPT ![i].at = "pipeline"]
         ELSE /\ jobs' = AfterRunError(jobs, runs[i], "failed to count variants")
              /\ runs' = [runs EXCEPT ![i].at = "done"]
    /\ UNCHANGED polled
    /\ DispatchFrame

(* the collector's UpdateProgress(jobID, len(buffer), 0) after a flush *)
RunProgress(i) ==
    /\ pc = "dispatch"
    /\ runs[i].at = "pipeline"
    /\ jobs[runs[i].id].processed_records < MaxCounter
    /\ jobs' = [jobs EXCEPT ![runs[i].id] = UpdateProgress(@, 1, 0)]
    /\ UNCHANGED <<runs, polled>>
    /\ DispatchFrame

(* jobRepo.Complete(ctx, jobID) and the return of RecalculateAll *)
RunComplete(i) ==
    /\ pc = "dispatch"
    /\ runs[i].at = "pipeline"
    /\ \E dbOk \in BOOLEAN :
         jobs' = IF dbOk
                 THEN [jobs EXCEPT ![runs[i].id] = Complete(@)]
                 ELSE AfterRunError(jobs, runs[i], "failed to complete job")
    /\ runs' = [runs EXCEPT ![i].at = "done"]
    /\ UNCHANGED polled
    /\ DispatchFrame

DispatchNext ==
    \/ \E id \in JobIDs : ApiPost(id)
    \/ WorkerTick
    \/ WorkerProcess
    \/ \E i \in 1..Len(runs) : RunMarkRunning(i)
    \/ \E i \in 1..Len(runs) : RunProgress(i)
    \/ \E i \in 1..Len(runs) : RunComplete(i)

DispatchSpec == DispatchInit /\ [][DispatchNext]_vars

(* ======================= properties of a run ========================== *)
RunFinished == pc = "finished"
FlushErrSeen == \E i \in 1..Len(flushLog) : flushLog[i] = "err"
NumActive == Len(ActiveIDs(Len(catalog)))
StoredIDs == {row.YarnVariantID : row \in summaryStore}

(* C1: once the run has returned, every variant the reader put on the work *)
(* queue has exactly one of: a summary written by this run, or an          *)
(* increment of the failure counter; never both, never neither.  Stated   *)
(* for the runs that return nil after reading every page, whatever the     *)
(* flushes returned.                                                       *)
C1_ExactlyOneOutcome ==
    (RunFinished /\ runErr = "" /\ ~readerErr) =>
        \A v \in enqueued : (v \in StoredIDs) # (v \in failedVariants)

(* C2: the stored counters never exceed the stored total:                  *)
(* processed_records + failed_records <= total_records in every state of   *)
(* the job row (stated for the runs in which every flush so far committed).*)
C2_CountersWithinTotal ==
    ~FlushErrSeen =>
        job.processed_records + job.failed_records <= job.total_records

(* C3: no registry operation lowers processed_records or failed_records.   *)
C3_CountersNeverRegress ==
    [][/\ job'.processed_records >= job.processed_records
       /\ job'.failed_records >= job.failed_records]_vars

(* C4: once the stored status is completed, failed or cancelled, no        *)
(* registry operation changes it.                                          *)
C4_TerminalSticky ==
    [][job.status \in TerminalStatuses => job'.status = job.status]_vars

(* C5: when every active variant references a routing with no cache entry  *)
(* and the run finished without error, the job row has failed_records = N, *)
(* processed_records = 0 and status completed.                             *)
C5_MissingRoutingAllFailed ==
    (/\ RunFinished /\ runErr = "" /\ ~readerErr
     /\ \A i \in 1..Len(catalog) :
          catalog[i].is_active =>
              catalog[i].routing_template_id \notin DOMAIN routingStepsCache)
    => /\ job.failed_records = NumActive
       /\ job.processed_records = 0
       /\ job.status = "COMPLETED"

(* C6: a run whose context was cancelled while the pipeline was working    *)
(* (the reader had already queued work) leaves the job with status         *)
(* cancelled.                                                              *)
C6_CancelledJobMarkedCancelled ==
    (RunFinished /\ ctxDone /\ enqueued # {}) => job.status = "CANCELLED"

(* C7: after a read error of the paging reader (the database failed, the   *)
(* context was not cancelled, every other call succeeded) the reader has   *)
(* stopped and closed the work queue, and the job ends with status failed. *)
C7_ReaderErrorMarksFailed ==
    (RunFinished /\ readerErr /\ ~ctxDone /\ runErr = "" /\ NumActive > 0) =>
        /\ readerPc = "done" /\ workClosed
        /\ job.status = "FAILED"

(* C8: when every flush committed, the registry's processed_records equals *)
(* the in-process processed counter at the end of the run.                 *)
C8_RegistryMatchesCounter ==
    (RunFinished /\ runErr = "" /\ ~readerErr /\ ~FlushErrSeen) =>
        job.processed_records = processedCount

(* C9: a flush that returns an error changes neither the in-process        *)
(* processed counter, nor the registry's processed_records, nor the failed *)
(* counters.                                                               *)
C9_FailedFlushCountsNothing ==
    [][(Len(flushLog') > Len(flushLog) /\ flushLog'[Len(flushLog')] = "err") =>
          /\ processedCount' = processedCount
          /\ failedCount' = failedCount
          /\ job'.processed_records = job.processed_records
          /\ job'.failed_records = job.failed_records]_vars

(* C10: a flush error does not abort the job: after it the collector still *)
(* drains the result queue, every summary sent by a worker is part of a    *)
(* flush attempt, and the run reaches Complete and returns.                *)
C10_FlushErrorDoesNotAbort ==
    FlushErrSeen ~>
        (/\ RunFinished
         /\ attempted = enqueued \ failedVariants
         /\ (runErr = "" => job.status = "COMPLETED"))

(* a finished, completed run in which a flush failed and a later one       *)
(* committed                                                               *)
C10_Witness ==
    /\ RunFinished /\ job.status = "COMPLETED"
    /\ \E i, k \in 1..Len(flushLog) :
         i < k /\ flushLog[i] = "err" /\ flushLog[k] = "ok"

(* ------------------- properties of the summaries --------------------- *)
(* every summary a worker has computed in this run, wherever it is now *)
Held == {w \in Workers : workerPc[w] = "send"}
Summaries ==
    {workerItem[w] : w \in Held} \cup Range(resultChan) \cup Range(buffer)
        \cup summaryStore

(* the steps of a list whose evaluation succeeds, and their ordered sum *)
SomeStepErrs(steps, params) ==
    \E i \in 1..Len(steps) : Evaluate(steps[i], params).err
RECURSIVE OkStepSum(_, _, _)
OkStepSum(steps, params, n) ==
    IF n = 0 THEN Fin(0)
    ELSE IF Evaluate(steps[n], params).err THEN OkStepSum(steps, params, n - 1)
    ELSE FAdd(OkStepSum(steps, params, n - 1), Evaluate(steps[n], params).val)

(* the cached steps of variant v's routing (none without a cache entry) *)
CachedSteps(v) ==
    IF catalog[v].routing_template_id \in DOMAIN routingStepsCache
    THEN routingStepsCache[catalog[v].routing_template_id]
    ELSE <<>>

(* C11: for a variant whose cached step list holds a step that fails to    *)
(* evaluate, the failure counter is not incremented, a summary is produced *)
(* once a worker has taken the item (and is part of a flush when the run   *)
(* is over), and its total_process_cost is the ordered sum of the steps    *)
(* that do evaluate: the failing step adds 0.                              *)
C11_ErrStepContributesZero ==
    \A v \in enqueued :
        SomeStepErrs(CachedSteps(v), BaseParams) =>
            /\ v \notin failedVariants
            /\ \A s \in Summaries :
                 s.YarnVariantID = v =>
                     s.TotalProcessCost =
                         OkStepSum(CachedSteps(v), BaseParams,
                                   Len(CachedSteps(v)))
            /\ (\A i \in 1..Len(workChan) : workChan[i].ID # v) =>
                   (v \in attempted \/ \E s \in Summaries : s.YarnVariantID = v)
            /\ RunFinished => v \in attempted

(* a finished run that stored the summary of a variant whose routing has a *)
(* failing step and two steps that evaluate                                *)
C11_Witness ==
    /\ RunFinished
    /\ \E row \in summaryStore :
         /\ SomeStepErrs(CachedSteps(row.YarnVariantID), BaseParams)
         /\ row.TotalProcessCost = Fin(5200 * Scale)

(* C12: a worker increments the failure counter for a work item exactly    *)
(* when the item's routing has no cache entry or an empty cached step      *)
(* list; then it adds exactly one and holds no summary for it; otherwise   *)
(* it leaves the counter alone and holds one summary of that variant,      *)
(* which it sends to the result queue exactly once.                        *)
C12_FailureIffCacheMiss ==
    [][LET taken == Len(workChan') < Len(workChan)
           work == Head(workChan)
           miss == \/ work.RoutingID \notin DOMAIN routingStepsCache
                   \/ routingStepsCache[work.RoutingID] = <<>>
       IN /\ failedCount' # failedCount => taken /\ miss
          /\ (taken /\ miss) =>
                /\ failedCount' = failedCount + 1
                /\ UNCHANGED <<workerPc, workerItem, resultChan>>
          /\ (taken /\ ~miss) =>
                /\ failedCount' = failedCount
                /\ resultChan' = resultChan
                /\ \E w \in Workers :
                     /\ workerPc[w] = "recv" /\ workerPc'[w] = "send"
                     /\ workerItem'[w].YarnVariantID = work.ID
                     /\ \A o \in Workers \ {w} :
                          workerPc'[o] = workerPc[o] /\ workerItem'[o] = workerItem[o]
          /\ \A w \in Workers :
               (workerPc[w] = "send" /\ workerPc'[w] # "send") =>
                   /\ resultChan' = Append(resultChan, workerItem[w])
                   /\ workerPc'[w] = "recv"
          /\ Len(resultChan') > Len(resultChan) =>
               \E w \in Workers :
                   /\ workerPc[w] = "send" /\ workerPc'[w] = "recv"
                   /\ resultChan' = Append(resultChan, workerItem[w])]_vars

(* a finished run that counted a variant with an empty cached step list as *)
(* failed and flushed the summary of another                               *)
C12_Witness ==
    /\ RunFinished
    /\ \E v \in failedVariants :
         /\ catalog[v].routing_template_id \in DOMAIN routingStepsCache
         /\ v \notin attempted
    /\ \E v \in attempted : v \notin failedVariants
    /\ failedCount = Cardinality(failedVariants)

(* C13: the stored status of a job changes only along                      *)
(* pending -> running -> (completed or failed): never from pending         *)
(* directly to a final status, never back to running or pending.           *)
C13_Lifecycle ==
    [][job'.status # job.status =>
          <<job.status, job'.status>> \in
              {<<"PENDING", "RUNNING">>, <<"RUNNING", "COMPLETED">>,
               <<"RUNNING", "FAILED">>}]_vars

(* C20: from the step that moves the job to running, the job's stored      *)
(* total_records equals the variant count obtained at the start of the run *)
C20_RunningJobHasTotal ==
    (job.status \in {"RUNNING", "COMPLETED"} /\ NumActive = Len(catalog)) =>
        job.total_records = totalCount

(* C18: only active variants are recalculated: no work item is enqueued,   *)
(* no summary is computed or written and no counter is incremented for a   *)
(* variant whose is_active flag is false.                                  *)
C18_OnlyActiveVariants ==
    /\ \A v \in enqueued \cup failedVariants \cup attempted \cup StoredIDs
                 \cup {s.YarnVariantID : s \in Summaries} :
         catalog[v].is_active
    /\ failedCount = Cardinality(failedVariants)
    /\ processedCount = Cardinality(attempted)
    /\ failedCount + processedCount <= NumActive

(* a finished run over a catalog with an inactive variant that wrote a     *)
(* summary                                                                 *)
C18_Witness ==
    /\ RunFinished
    /\ \E i \in 1..Len(catalog) : ~catalog[i].is_active
    /\ summaryStore # {}

(* C19: the paging reader sends the active variants in id order, each at   *)
(* most once and without a gap: a page starts where the rows sent so far   *)
(* end.  When it has stopped without a read error or a cancellation it has *)
(* read up to the first empty page, every active variant was put on the    *)
(* work queue exactly once, and the work queue is closed.                  *)
C19_PagingExactlyOnce ==
    /\ [](/\ readerPc \in {"fetch", "send"} =>
                offset + (IF readerPc = "send" THEN pageIdx - 1 ELSE 0)
                    = Cardinality(enqueued)
          /\ (readerPc = "done" /\ ~readerErr /\ ~ctxDone) =>
                /\ workClosed
                /\ offset = NumActive
                /\ enqueued = Range(ActiveIDs(Len(catalog))))
    /\ [][Len(workChan') > Len(workChan) =>
            LET item == workChan'[Len(workChan')]
            IN /\ workChan' = Append(workChan, item)
               /\ item.ID \notin enqueued
               /\ item.ID = ActiveIDs(Len(catalog))[Cardinality(enqueued) + 1]
               /\ item.RoutingID = catalog[item.ID].routing_template_id
               /\ enqueued' = enqueued \cup {item.ID}]_vars

(* the reader has stopped after several pages, the last of them partial or *)
(* full, with every active variant sent                                    *)
C19_Witness ==
    /\ readerPc = "done" /\ ~readerErr /\ ~ctxDone /\ workClosed
    /\ NumActive > batchSize
    /\ Cardinality(enqueued) = NumActive

(* ------------- properties of CalculateVariantFast calls --------------- *)
Called == calcLast.variantID # 0
CalledTwice == Called /\ calcPrev.variantID # 0

(* C15: the version_hash is a function of the parameter bag alone: two     *)
(* calls with the same bag return the same hash, whatever the variant id,  *)
(* the step list and the time of each call.                                *)
C15_HashOfBagAlone ==
    CalledTwice => calcLast.summary.VersionHash = calcPrev.summary.VersionHash

(* two calls that differ in variant id, step list and time *)
C15_Witness ==
    /\ CalledTwice
    /\ calcLast.variantID # calcPrev.variantID
    /\ calcLast.steps # calcPrev.steps
    /\ calcLast.now # calcPrev.now
    /\ calcLast.summary.LastRecalculatedAt # calcPrev.summary.LastRecalculatedAt

(* the overhead factor the bag stands for: its overhead_percentage, or 0.1 *)
(* when it holds none                                                      *)
BagOverhead ==
    IF "overhead_percentage" \in DOMAIN calcBag
    THEN Fin(calcBag.overhead_percentage.v)
    ELSE DefaultOverhead

(* C16: every summary satisfies, under the == of float64,                  *)
(* grand_total = total_material_cost + total_process_cost + total_overhead,*)
(* total_overhead = total_process_cost * overhead factor, and              *)
(* total_process_cost = the sum in step order of the step costs, 0 for a   *)
(* step whose evaluation errs.                                             *)
C16_GrandTotalIdentity ==
    Called =>
        LET s == calcLast.summary
        IN /\ FEq(s.GrandTotal,
                  Add64(Add64(s.TotalMaterialCost, s.TotalProcessCost),
                        s.TotalOverhead))
           /\ FEq(s.TotalOverhead,
                  Mul64(s.TotalProcessCost,
                        getFloatParam(calcBag, "overhead_percentage",
                                      DefaultOverhead)))
           /\ FEq(s.TotalProcessCost,
                  OkStepSum(calcLast.steps, calcBag, Len(calcLast.steps)))

(* C16 amended: the three fields always hold exactly the value of those    *)
(* expressions, and the three equations hold under == whenever grand_total *)
(* is not NaN (a NaN step cost such as 0/0 makes the totals NaN, and NaN   *)
(* is not == to itself).                                                   *)
C16_GrandTotalIdentityUnlessNaN ==
    Called =>
        LET s == calcLast.summary
            sum == Add64(Add64(s.TotalMaterialCost, s.TotalProcessCost),
                         s.TotalOverhead)
            ovh == Mul64(s.TotalProcessCost,
                         getFloatParam(calcBag, "overhead_percentage",
                                       DefaultOverhead))
            prc == OkStepSum(calcLast.steps, calcBag, Len(calcLast.steps))
        IN /\ s.GrandTotal = sum /\ s.TotalOverhead = ovh
           /\ s.TotalProcessCost = prc
           /\ s.GrandTotal.k # "nan" =>
                 /\ FEq(s.GrandTotal, sum) /\ FEq(s.TotalOverhead, ovh)
                 /\ FEq(s.TotalProcessCost, prc)

(* a call over three steps, one of them failing, with a finite grand total *)
(* made of a material cost, a process cost and an overhead                 *)
C16_Witness ==
    /\ Called
    /\ Len(calcLast.steps) = 3 /\ SomeStepErrs(calcLast.steps, calcBag)
    /\ calcLast.summary.GrandTotal.k = "fin"
    /\ calcLast.summary.TotalMaterialCost.n > 0
    /\ calcLast.summary.TotalProcessCost.n > 0
    /\ calcLast.summary.TotalOverhead.n > 0

(* C17: total_material_cost is the bag's material_cost whenever the key    *)
(* holds a numeric value of any Go numeric type, and 0.0 when the key is   *)
(* absent; the overhead factor is the bag's overhead_percentage whenever   *)
(* it holds a numeric value, and 0.1 when the key is absent.               *)
C17_ParamOrDefault ==
    Called =>
        LET s == calcLast.summary
        IN /\ "material_cost" \notin DOMAIN calcBag =>
                 s.TotalMaterialCost = Fin(0)
           /\ ("material_cost" \in DOMAIN calcBag
               /\ calcBag.material_cost.type \in NumericTypes) =>
                 s.TotalMaterialCost = Fin(calcBag.material_cost.v)
           /\ ("overhead_percentage" \notin DOMAIN calcBag
               \/ calcBag.overhead_percentage.type \in NumericTypes) =>
                 s.TotalOverhead = Mul64(s.TotalProcessCost, BagOverhead)

(* ---------------- properties of two runs in a row --------------------- *)
(* a row without its last_recalculated_at *)
Untimed(row) ==
    [yarn_variant_id |-> row.YarnVariantID,
     total_material_cost |-> row.TotalMaterialCost,
     total_process_cost |-> row.TotalProcessCost,
     total_overhead |-> row.TotalOverhead,
     grand_total |-> row.GrandTotal,
     version_hash |-> row.VersionHash]

C27_CloseAfterWorkersExit ==
    /\ [](resultClosed => \A w \in Workers : workerPc[w] = "done")
    /\ [][/\ \A w \in Workers :
               (workerPc[w] # "done" /\ workerPc'[w] = "done")
                   => (workClosed /\ workChan = <<>>)
          /\ (~resultClosed /\ resultClosed')
                   => \A w \in Workers : workerPc[w] = "done"
          /\ Len(resultChan') > Len(resultChan) => ~resultClosed]_vars

(* the result queue was closed after a worker had sent a summary *)
C27_Witness ==
    /\ resultClosed
    /\ \A w \in Workers : workerPc[w] = "done"
    /\ Len(resultChan) > 0

(* ---------------- C28: completion after the collector ----------------- *)
(* RecalculateAll has made its call to Complete (or returned before it) *)
CompleteCalled == pc \in {"returned", "finished"}

(* a step without any effect of the collector *)
NoCollectorEffect ==
    /\ flushLog' = flushLog
    /\ attempted' = attempted
    /\ summaryStore' = summaryStore
    /\ buffer' = buffer
    /\ processedCount' = processedCount
    /\ failedCount' = failedCount
    /\ job'.processed_records = job.processed_records
    /\ job'.failed_records = job.failed_records

(* C28: the job is marked completed only after the collector has exited,  *)
(* and once Complete has been called no step of the run flushes a batch,  *)
(* changes an in-process counter or changes the registry's progress.      *)
C28_CompleteAfterCollector ==
    /\ [](job.status = "COMPLETED" => collectorPc = "done")
    /\ [][CompleteCalled => NoCollectorEffect]_vars

(* Complete was called after the collector flushed at least one batch *)
C28_Witness ==
    /\ job.status = "COMPLETED"
    /\ pc \in {"returned", "finished"}
    /\ Len(flushLog) > 0
    /\ processedCount > 0


(* ---------------- C24: a panic inside a task -------------------------- *)
(* C24: when a pipeline task panics, the panic is caught at the task's    *)
(* boundary and the job's stored status ends as FAILED with the error     *)
(* message recorded.                                                      *)
C24_PanicMarksJobFailed ==
    pc = "crashed" => (job.status = "FAILED" /\ job.error_message # "")


(* ---------------- C29: termination under fair scheduling -------------- *)
(* the goroutines of the run were started *)
PipelineStarted == readerPc # "idle"

(* every task of the run has exited and both queues are closed *)
AllTasksExited ==
    /\ readerPc = "done" /\ workClosed
    /\ \A w \in Workers : workerPc[w] = "done"
    /\ resultClosed
    /\ collectorPc = "done"

(* C29: under fair scheduling, with every database call returning, every  *)
(* run terminates: once the tasks are started the dispatcher finishes and *)
(* closes the work queue, every worker exits, the collector exits and the *)
(* run goes through the job-completion step to its end; a full queue      *)
(* never blocks a task for ever.                                          *)
C29_RunTerminates ==
    <>[](/\ pc = "finished"
         /\ PipelineStarted => (AllTasksExited /\ workChan = <<>> /\ resultChan = <<>>))

(* the dispatcher is blocked on a full work queue *)
C29_Witness ==
    /\ readerPc = "send"
    /\ ~ctxDone
    /\ Len(workChan) = ChanCap(batchSize)

(* ---------------- C30: nothing dropped under backpressure ------------- *)
(* ids of the work items in the work queue, and of the summaries a worker *)
(* holds, in the result queue and in the collector's buffer               *)
QueuedIDs == {workChan[i].ID : i \in 1..Len(workChan)}
HeldIDs == {workerItem[w].YarnVariantID : w \in Held}
InFlightIDs == HeldIDs \cup IDs(resultChan) \cup IDs(buffer)

(* every enqueued item is in exactly one place *)
Conservation ==
    /\ enqueued = QueuedIDs \cup failedVariants \cup InFlightIDs \cup attempted
    /\ Cardinality(enqueued) =
          Len(workChan) + Cardinality(failedVariants) + Cardinality(Held)
            + Len(resultChan) + Len(buffer) + Cardinality(attempted)
    /\ failedCount = Cardinality(failedVariants)
    /\ processedCount = Cardinality(attempted)

(* a step that takes the head of the work queue hands it to one worker *)
WorkReceivedOnce ==
    Len(workChan') < Len(workChan) =>
        /\ workChan' = Tail(workChan)
        /\ \E w \in Workers :
             /\ workerPc[w] = "recv"
             /\ \A u \in Workers \ {w} :
                   workerPc'[u] = workerPc[u] /\ workerItem'[u] = workerItem[u]
             /\ \/ /\ workerPc'[w] = "send"
                   /\ workerItem'[w].YarnVariantID = Head(workChan).ID
                \/ /\ workerPc'[w] = "recv"
                   /\ Head(workChan).ID \notin failedVariants
                   /\ failedVariants' = failedVariants \cup {Head(workChan).ID}

(* a step that takes the head of the result queue puts it in the buffer   *)
(* or in the batch flushed by the same step                               *)
ResultReceivedOnce ==
    Len(resultChan') < Len(resultChan) =>
        /\ resultChan' = Tail(resultChan)
        /\ Head(resultChan).YarnVariantID \notin attempted
        /\ \/ buffer' = Append(buffer, Head(resultChan))
           \/ /\ buffer' = <<>>
              /\ attempted' = attempted \cup IDs(buffer)
                                 \cup {Head(resultChan).YarnVariantID}
              /\ Len(flushLog') = Len(flushLog) + 1

(* C30: no work is dropped, however full the queues are: every work item  *)
(* the dispatcher enqueues is received by exactly one worker, and every   *)
(* summary a worker pushes is received by the collector and is part of    *)
(* exactly one flush attempt before the run returns.                      *)
C30_NoWorkDropped ==
    /\ [](PipelineStarted => Conservation)
    /\ []((PipelineStarted /\ pc \in {"returned", "finished"})
            => (enqueued = failedVariants \cup attempted
                /\ failedVariants \cap attempted = {}
                /\ workChan = <<>> /\ resultChan = <<>> /\ buffer = <<>>
                /\ Held = {}))
    /\ [][WorkReceivedOnce]_vars
    /\ [][ResultReceivedOnce]_vars

(* a worker holding a summary is blocked on a full result queue *)
C30_Witness ==
    /\ \E w \in Workers : workerPc[w] = "send"
    /\ Len(resultChan) = ChanCap(batchSize)
    /\ collectorPc = "recv"


(* ---------------- C21: BatchJob.Progress ------------------------------ *)
(* C21: Progress returns 0 when total_records is 0 and otherwise          *)
(* 100 * processed_records / total_records, and the call leaves the job   *)
(* as it was.                                                             *)
C21_ProgressPercentage ==
    /\ [](progressRead.called =>
            IF progressRead.total_records = 0
            THEN RatEq(progressRead.value, Rat(0, 1))
            ELSE RatEq(progressRead.value,
                       Rat(100 * progressRead.processed_records,
                           progressRead.total_records)))
    /\ [][progressRead' # progressRead => job' = job]_vars

(* Progress was called on a job that is partly processed *)
C21_Witness ==
    /\ progressRead.called
    /\ progressRead.total_records > 1
    /\ progressRead.processed_records > 0
    /\ progressRead.processed_records < progressRead.total_records


(* ---------------- C22: Complete and Fail touch one job ---------------- *)
(* the call caller c returns from in this step *)
Returns(c, op) ==
    ~callers[c].done /\ callers'[c].done /\ callers[c].call.op = op

CountersKept(id) ==
    /\ jobs'[id].total_records = jobs[id].total_records
    /\ jobs'[id].processed_records = jobs[id].processed_records
    /\ jobs'[id].failed_records = jobs[id].failed_records

OthersKept(id) == \A o \in JobIDs \ {id} : jobs'[o] = jobs[o]

CompleteEffect ==
    \A c \in Callers :
      Returns(c, "Complete") =>
        LET id == callers[c].call.id
        IN /\ jobs'[id].status = "COMPLETED"
           /\ jobs'[id].finished_at
           /\ jobs'[id].error_message = jobs[id].error_message
           /\ CountersKept(id)
           /\ OthersKept(id)

FailEffect ==
    \A c \in Callers :
      Returns(c, "Fail") =>
        LET id == callers[c].call.id
        IN /\ jobs'[id].status = "FAILED"
           /\ jobs'[id].error_message = callers[c].call.errorMsg
           /\ jobs'[id].finished_at
           /\ CountersKept(id)
           /\ OthersKept(id)

(* C22: Complete sets the job's status to COMPLETED and its finished_at;  *)
(* Fail sets the status to FAILED, the error message and finished_at;     *)
(* both leave the job's three counters and every other job as they were.  *)
C22_CompleteFailFrame ==
    [][CompleteEffect]_vars /\ [][FailEffect]_vars

(* one job was completed and the other failed, with counters above zero *)
C22_Witness ==
    /\ jobs # <<>>
    /\ jobs["j1"].status = "FAILED" /\ jobs["j1"].error_message = "error"
    /\ jobs["j2"].status = "COMPLETED" /\ jobs["j2"].finished_at
    /\ jobs["j2"].processed_records > 0

(* ---------------- C23: concurrent UpdateProgress calls ---------------- *)
(* sum of a field of the UpdateProgress calls on job id that returned,    *)
(* over callers 1..n                                                      *)
RECURSIVE DeltaSum(_, _, _)
DeltaSum(id, field, n) ==
    IF n = 0
    THEN 0
    ELSE DeltaSum(id, field, n - 1)
           + (IF /\ callers[n].done
                 /\ callers[n].call.op = "UpdateProgress"
                 /\ callers[n].call.id = id
              THEN callers[n].call[field]
              ELSE 0)

(* C23: whatever the interleaving of concurrent UpdateProgress calls on a *)
(* job, its processed_records and failed_records are their initial values *)
(* plus the sum of the deltas of the calls that have returned.            *)
C23_ProgressAdditive ==
    jobs # <<>> =>
      \A id \in JobIDs :
        /\ jobs[id].processed_records =
              InitialRow(id).processed_records + DeltaSum(id, "processed", MaxCallers)
        /\ jobs[id].failed_records =
              InitialRow(id).failed_records + DeltaSum(id, "failed", MaxCallers)

(* two concurrent calls with non-zero deltas on the same job have returned *)
C23_Witness ==
    /\ callers # <<>>
    /\ \E c1, c2 \in Callers :
         /\ c1 # c2
         /\ callers[c1].done /\ callers[c2].done
         /\ callers[c1].call.op = "UpdateProgress"
         /\ callers[c2].call.op = "UpdateProgress"
         /\ callers[c1].call.id = callers[c2].call.id
         /\ callers[c1].call.processed > 0 /\ callers[c2].call.processed > 0
         /\ callers[c1].call.failed > 0 /\ callers[c2].call.failed > 0


(* ---------------- C25: formulas that do not compile ------------------- *)
(* identifiers a formula text names *)
NamedIn(toks) == {toks[i].s : i \in {j \in 1..Len(toks) : toks[j].t = "id"}}

(* number of tokens of a text that are the operator s *)
CountOp(toks, s) ==
    Cardinality({i \in 1..Len(toks) : toks[i].t = "op" /\ toks[i].s = s})

Unbalanced(toks) == CountOp(toks, "(") # CountOp(toks, ")")

(* C25: Parser.Evaluate returns an error and the value 0 for a formula    *)
(* that names an identifier absent from the bag, for a formula with       *)
(* unbalanced parentheses, and for every other text that is not a formula. *)
C25_UncompilableFormulaErrs ==
    (/\ evalLast.called
     /\ \/ ~(NamedIn(evalLast.expression) \subseteq DOMAIN calcBag)
        \/ Unbalanced(evalLast.expression)
        \/ evalLast.ast = NoAST)
        => (evalLast.result.err /\ evalLast.result.val = Fin(0))

(* a well-formed formula was evaluated on a bag that lacks one of its     *)
(* identifiers and has the others                                         *)
C25_Witness ==
    /\ evalLast.called
    /\ evalLast.ast # NoAST
    /\ ~Unbalanced(evalLast.expression)
    /\ "quantity" \in DOMAIN calcBag
    /\ "price" \in NamedIn(evalLast.expression) \ DOMAIN calcBag
    /\ evalLast.result.err

(* ---------------- C26: precedence, comparison, ternary ---------------- *)
(* reference evaluator on the syntax tree *)
RECURSIVE RefType(_)
RefType(a) ==
    IF a.op \in {"id", "num"} THEN "num"
    ELSE IF a.op = "?:"
         THEN (IF RefType(a.c) = "bool" /\ RefType(a.l) = "num"
                    /\ RefType(a.r) = "num"
               THEN "num" ELSE "bad")
    ELSE IF RefType(a.l) # "num" \/ RefType(a.r) # "num" THEN "bad"
    ELSE IF a.op \in CompareOps THEN "bool"
    ELSE "num"

RECURSIVE IdsOf(_)
IdsOf(a) ==
    IF a.op = "id" THEN {a.s}
    ELSE IF a.op = "num" THEN {}
    ELSE IF a.op = "?:" THEN IdsOf(a.c) \cup IdsOf(a.l) \cup IdsOf(a.r)
    ELSE IdsOf(a.l) \cup IdsOf(a.r)

RefHolds(op, x, y) ==
    CASE op = "<" -> FLess(x, y)
      [] op = ">" -> FLess(y, x)
      [] op = "<=" -> ~FLess(y, x) /\ x.k # "nan" /\ y.k # "nan"
      [] op = ">=" -> ~FLess(x, y) /\ x.k # "nan" /\ y.k # "nan"
      [] op = "==" -> FEq(x, y)
      [] op = "!=" -> ~FEq(x, y)

RECURSIVE RefEval(_, _), RefCond(_, _)
RefEval(a, params) ==
    IF a.op = "id" THEN Fin(params[a.s].v)
    ELSE IF a.op = "num" THEN Fin(a.v)
    ELSE IF a.op = "?:"
         THEN (IF RefCond(a.c, params) THEN RefEval(a.l, params)
               ELSE RefEval(a.r, params))
    ELSE IF a.op = "+" THEN FAdd(RefEval(a.l, params), RefEval(a.r, params))
    ELSE IF a.op = "-" THEN FSub(RefEval(a.l, params), RefEval(a.r, params))
    ELSE IF a.op = "*" THEN FMul(RefEval(a.l, params), RefEval(a.r, params))
    ELSE FDiv(RefEval(a.l, params), RefEval(a.r, params))

RefCond(a, params) ==
    RefHolds(a.op, RefEval(a.l, params), RefEval(a.r, params))

(* the last call was on a formula with a numeric value all of whose       *)
(* identifiers are in the bag                                             *)
EvaluatedFormula ==
    /\ evalLast.called
    /\ evalLast.ast # NoAST
    /\ RefType(evalLast.ast) = "num"
    /\ IdsOf(evalLast.ast) \subseteq DOMAIN calcBag

(* C26: for a formula built from + - * /, parentheses, comparisons and    *)
(* the ternary selector over identifiers of the bag, Parser.Evaluate      *)
(* returns, without error, the value of the reference evaluator under the *)
(* usual precedence; cond ? a : b has the value of a when cond holds and  *)
(* of b otherwise.                                                        *)
C26_EvaluateMatchesReference ==
    EvaluatedFormula =>
        /\ ~evalLast.result.err
        /\ evalLast.result.val = RefEval(evalLast.ast, calcBag)
        /\ evalLast.ast.op = "?:" =>
             evalLast.result.val =
               IF RefCond(evalLast.ast.c, calcBag)
               THEN RefEval(evalLast.ast.l, calcBag)
               ELSE RefEval(evalLast.ast.r, calcBag)

(* quantity > 100 ? price * 0.9 : price on {quantity: 150, price: 100}    *)
(* returned 90                                                            *)
C26_Witness ==
    /\ EvaluatedFormula
    /\ evalLast.ast = Tern(Bin(">", Quantity, Lit(100 * Scale)),
                           Bin("*", Price, Lit(9)), Price)
    /\ calcBag["quantity"].v = 150 * Scale
    /\ calcBag["price"].v = 100 * Scale
    /\ evalLast.result = [err |-> FALSE, val |-> Fin(90 * Scale)]


(* ---------------- C31: when the collector flushes --------------------- *)
(* the step calls UpsertBatch *)
FlushStep == Len(flushLog') = Len(flushLog) + 1

(* the summaries the collector hands to UpsertBatch in a flush step: the  *)
(* buffer when the result queue has ended, else the buffer with the       *)
(* summary just received                                                  *)
FinalFlush == resultChan = <<>> /\ resultClosed
Flushed == IF FinalFlush THEN buffer ELSE Append(buffer, Head(resultChan))

FlushAtBatchSizeOrClose ==
    /\ FlushStep =>
         /\ Len(Flushed) > 0
         /\ ~FinalFlush => (Len(Flushed) = batchSize /\ buffer' = <<>>)
         /\ FinalFlush => (Len(Flushed) <= batchSize /\ collectorPc' = "done")
    /\ (~FlushStep /\ Len(resultChan') < Len(resultChan)) =>
         (Len(buffer') = Len(buffer) + 1 /\ Len(buffer') < batchSize)
    /\ (~FlushStep /\ collectorPc = "recv" /\ collectorPc' = "done") =>
         buffer = <<>>

CacheLoaded == pc \notin {"count", "cache"}

(* C32: after loadRoutingStepsCache returns, no step of any task changes  *)
(* the routing-step cache or the base parameter bag, so both are at the   *)
(* end of the run what they were when the pipeline started: the bag is    *)
(* the caller's, and the cache holds the loaded steps of its routings.    *)
C32_CacheAndBagReadOnly ==
    /\ [](CacheLoaded =>
            /\ calcBag = BaseParams
            /\ \A r \in DOMAIN routingStepsCache :
                 routingStepsCache[r] = ProcessSteps[r])
    /\ [][CacheLoaded =>
            (routingStepsCache' = routingStepsCache /\ calcBag' = calcBag)]_vars

(* the run finished after a worker looked up a routing the cache does not *)
(* hold and another worker computed a summary from the cache and the bag  *)
C32_Witness ==
    /\ pc = "finished"
    /\ failedVariants # {}
    /\ attempted # {}
    /\ \E i \in 1..Len(catalog) :
         catalog[i].routing_template_id \notin DOMAIN routingStepsCache


(* ---------------- C34: a flush is all or nothing ---------------------- *)
FlushReturned(outcome) == FlushStep /\ flushLog'[Len(flushLog')] = outcome

AllOrNothing ==
    /\ FlushReturned("ok") => Range(Flushed) \subseteq summaryStore'
    /\ FlushReturned("err") => summaryStore' = summaryStore
    /\ ~FlushStep => summaryStore' = summaryStore

(* C34: a batch flush is atomic: a step in which UpsertBatch commits      *)
(* leaves every summary of the flushed buffer in the summary store, a     *)
(* step in which it returns an error leaves the store exactly as it was,  *)
(* and no other step of the run changes the store, so no state has only   *)
(* part of a buffer stored.                                               *)
C34_FlushAtomic == [][AllOrNothing]_vars

(* a flush of one summary committed and the next flush failed: the store  *)
(* still holds the first summary only                                     *)
C34_Witness ==
    /\ flushLog = <<"ok", "err">>
    /\ Cardinality(attempted) = 2
    /\ Cardinality(summaryStore) = 1


(* ---------------- C35: the store is keyed by variant id --------------- *)
OneRowPerVariant ==
    \A a, b \in summaryStore : a.YarnVariantID = b.YarnVariantID => a = b

OtherRows(store, ids) == {row \in store : row.YarnVariantID \notin ids}

ReplacedWholesale ==
    /\ FlushReturned("ok") =>
         /\ \A i \in 1..Len(Flushed) : Flushed[i] \in summaryStore'
         /\ OtherRows(summaryStore', IDs(Flushed))
              = OtherRows(summaryStore, IDs(Flushed))
    /\ ~FlushReturned("ok") => summaryStore' = summaryStore

(* C35: the summary store is keyed by variant id and an upsert replaces   *)
(* the previous summary wholesale: the store never holds two rows of one  *)
(* variant, a committed flush leaves each of its summaries in the store   *)
(* as the row of its variant (all cost fields, the hash and               *)
(* last_recalculated_at), rows of other variants are as they were, and    *)
(* nothing but a committed flush changes the store.                       *)
C35_UpsertReplacesRow == []OneRowPerVariant /\ [][ReplacedWholesale]_vars

(* in the second run a committed flush replaced the row of one variant    *)
(* while the row of another variant is still the first run's              *)
C35_Witness ==
    /\ Len(storeLog) = 1
    /\ \E old \in storeLog[1].store, new \in summaryStore :
         /\ new.YarnVariantID = old.YarnVariantID
         /\ new.LastRecalculatedAt # old.LastRecalculatedAt
    /\ \E kept \in storeLog[1].store :
         /\ kept \in summaryStore
         /\ \E new \in summaryStore : new.YarnVariantID # kept.YarnVariantID


(* ---------------- C36: the counters account for every variant --------- *)
(* the run got past resultWg.Wait() with every page read and no           *)
(* cancellation                                                           *)
CompletionReached ==
    /\ \/ pc = "waitCollector" /\ CollectorDone
       \/ PipelineStarted /\ pc \in {"returned", "finished"}
    /\ ~readerErr /\ ~ctxDone

(* C36: when a run reaches completion without a reader error or           *)
(* cancellation, processed + failed equals the number of active variants  *)
(* the reader enqueued, which is every active variant; at every moment of *)
(* the run processed + failed is at most the number enqueued so far.      *)
C36_CountersAccountForAll ==
    /\ processedCount + failedCount <= Cardinality(enqueued)
    /\ Cardinality(enqueued) <= NumActive
    /\ CompletionReached =>
         /\ processedCount + failedCount = Cardinality(enqueued)
         /\ Cardinality(enqueued) = NumActive

(* a completed run in which one variant was counted as failed and one as  *)
(* processed                                                              *)
C36_Witness ==
    /\ CompletionReached /\ pc = "finished"
    /\ processedCount = 1 /\ failedCount = 1
    /\ NumActive = 2


(* ---------------- C33: termination after cancellation ----------------- *)
(* once the context is cancelled the reader obtains no further page *)
NoPageAfterCancel == ctxDone => ~(readerPc = "fetch" /\ readerPc' = "send")

(* the caller has returned; if the pipeline was started, the reader has   *)
(* closed the work queue, the workers have drained it and exited, and the *)
(* collector has attempted a flush of every summary it got and exited     *)
CancelledRunOver ==
    /\ pc = "finished"
    /\ PipelineStarted =>
         /\ AllTasksExited
         /\ workChan = <<>> /\ resultChan = <<>>
         /\ enqueued = failedVariants \cup attempted

(* C33: after the cancellation signal fires, under fair scheduling the    *)
(* reader stops paging and closes the work queue, every evaluator exits   *)
(* after draining the work queue, the collector attempts a flush of the   *)
(* summaries it holds and exits, and RecalculateAll returns; no task      *)
(* stays blocked forever.                                                 *)
C33_CancelledRunTerminates ==
    (ctxDone ~> CancelledRunOver) /\ [][NoPageAfterCancel]_vars

(* a cancelled run is over: the reader stopped before the last page, and  *)
(* the summary already computed was part of a flush attempt, which failed *)
C33_Witness ==
    /\ ctxDone /\ pc = "finished" /\ PipelineStarted
    /\ Cardinality(enqueued) < NumActive
    /\ attempted # {}
    /\ flushLog[Len(flushLog)] = "err"


(* ---------------- C38: every invoked job ends terminal ---------------- *)
(* C38: every job on which RecalculateAll is invoked eventually has a     *)
(* terminal stored status (completed, failed or cancelled), whichever     *)
(* caller invoked it and whichever call of the run returned an error.     *)
C38_EveryJobEndsTerminal == <>(job.status \in TerminalStatuses)


(* ---------------- C37: at most one run per job ------------------------ *)
(* C37: a job is executed by at most one RecalculateAll run, however the  *)
(* API's asynchronous start and the worker service's poll interleave: no  *)
(* job id has two runs in progress at the same time and no job is run     *)
(* again after it has been run, that is, no two invocations of            *)
(* RecalculateAll are for the same job id.                                *)
C37_AtMostOneRunPerJob ==
    \A i, k \in 1..Len(runs) : runs[i].id = runs[k].id => i = k

====
